---- MODULE Spec2Model ----
(***************************************************************************)
(* A model of the scribble command line driver (bin/scribble.ts):          *)
(*   - computeContractsNeedingInstr and instrumentFiles,                   *)
(*   - fixNameConflicts and fixRenamingErrors,                             *)
(*   - topoSort and the flat-mode join.                                    *)
(* Each part has its own specification over the shared variables; the      *)
(* variables of the parts a specification does not run stay idle.          *)
(***************************************************************************)
EXTENDS Integers, Sequences, FiniteSets, TLC

(***************************************************************************)
(* Bounds of the model.                                                    *)
(***************************************************************************)
\* number of contracts in the merged units
NContracts == 3

\* number of source units handed to fixNameConflicts and fixRenamingErrors
NRenameUnits == 3

\* number of source units handed to topoSort
NTopoUnits == 3

\* number of target files of a run of the tool
NFiles == 2

\* number of source units, besides the utilities unit, handed to the metadata generation
NMetaUnits == 2

\* number of contracts known to the type environment
NEnvContracts == 2

\* number of calls of defineUserFunction
MaxDefined == 3

\* number of units handed to the flatten step
NFlatUnits == 2

\* largest file offset at which the text of an annotation starts
MaxTextStart == 8

\* largest offset of the start of an error in the text of an annotation
MaxLoc == 3

(***************************************************************************)
(* State.                                                                  *)
(***************************************************************************)
\* PART I: computeContractsNeedingInstr and instrumentFiles
VARIABLES
    ikind,          \* contract -> ContractKind
    iparents,       \* cha.parents: contract -> its direct bases
    iannots,        \* contractAnnotMap: contract -> annotation types (<< >>: no entry)
    ipc,            \* position in the run
    wave,           \* computeContractsNeedingInstr: the stack of contracts to visit
    visited,        \* computeContractsNeedingInstr: visited, then contractsNeedingInstr
    cpos,           \* instrumentFiles: index of the contract being collected
    fpos,           \* instrumentFiles: 0 = contract-level step, else index of the function
    changed,        \* instrumentFiles: the 'changed' flag of the current unit
    worklist,       \* instrumentFiles: the worklist
    ctxAnnotations, \* ctx.annotations
    changedSourceUnits,
    ipos,           \* instrumentFiles: number of worklist entries handed out
    instrumented,   \* the calls made to the contract/function instrumenters
    checkedTargets  \* the targets <<contract, function>> handed to tcOrDie so far, in order

instrVars == <<ikind, iparents, iannots, ipc, wave, visited, cpos, fpos, changed,
               worklist, ctxAnnotations, changedSourceUnits, ipos, instrumented,
               checkedTargets>>

\* PART I, continued: the metadata generated from the instrumentation context
VARIABLES
    propertyMap     \* generatePropertyMap: the records, in order


\* PART II: fixNameConflicts and fixRenamingErrors
VARIABLES
    rconf,      \* the units: unit -> top-level name -> kind of the definition, or "none"
    rpc,        \* position in the run
    rpos,       \* index of the unit the current loop is at
    nameMap,    \* fixNameConflicts: name -> the definitions with that name, in order
    defName,    \* top-level definition -> its current name
    refs        \* reference node -> [node |-> its node type, name |-> its text]

renameVars == <<rconf, rpc, rpos, nameMap, defName, refs>>

\* PART III: topoSort and the flat-mode join
VARIABLES
    timports,     \* unit -> the units its import directives name
    tpc,          \* position in the run
    importersM,   \* topoSort: unit -> the units that import it, in insertion order
    nImportsM,    \* topoSort: unit -> number of units it imports and that are not sorted yet
    q,            \* topoSort: the queue of ready units
    sorted,       \* topoSort: the result so far
    jpos,         \* flat-mode join: number of units joined
    flatContents, \* flat-mode join: the text so far
    flatOut       \* what writeOut has written: << >> while nothing is written

topoVars == <<timports, tpc, importersM, nImportsM, q, sorted, jpos, flatContents, flatOut>>

\* PART IV: the command line driver: options, compilation, outputs, --arm, --disarm
VARIABLES
    dext,                     \* source file -> the extension of its name
    fs,                       \* the file system: path -> contents, for the files that exist
    fsBefore,                 \* the file system when the current run started
    runs,                     \* the finished runs of the session: their options and exits
    options,                  \* the command line options of the current run
    dpc,                      \* the phase the run is in
    exit,                     \* "running", "ok", "error" (process.exit(1)), "crash" (uncaught)
    stderr,                   \* the error message printed before the exit
    compilerVersionUsedMap,   \* the compiler versions recorded, in target order
    compilerVersionUsed,      \* the version pickVersion returned
    originalFiles,            \* --disarm: the existing .original files
    instrumentationFiles,     \* --disarm: the existing .instrumented files and utilities file
    changedUnits,             \* the units instrumentFiles reports as changed
    wpos,                     \* index of the current loop
    writes                    \* the file operations and outputs of the current run, in order

driverVars == <<dext, fs, fsBefore, runs, options, dpc, exit, stderr, compilerVersionUsedMap,
                compilerVersionUsed, originalFiles, instrumentationFiles, changedUnits,
                wpos, writes>>

\* PART V: generateInstrumentationMetadata
VARIABLES
    mconf,                \* the inputs of the generation
    mpc,                  \* position in the generation
    mpos,                 \* index into the list the current loop goes over
    originalSourceList,
    instrSourceList,
    src2SrcMap,           \* instrToOriginalMap
    otherInstrumentation

metaVars == <<mconf, mpc, mpos, originalSourceList, instrSourceList, src2SrcMap,
              otherInstrumentation>>

\* PART VI: TypeEnv
VARIABLES
    tlin,           \* contract -> its vLinearizedBaseContracts
    userFunctions,  \* TypeEnv.userFunctions: contract -> name -> definition
    nDefined,       \* number of calls of defineUserFunction
    tquery          \* the last call of getUserFunction and its result

envVars == <<tlin, userFunctions, nDefined, tquery>>

\* PART VII: the flatten step of flat and json mode
VARIABLES
    fshape,         \* unit -> the kinds of its children before the step
    fversion,       \* the picked compiler version
    fchildren,      \* unit -> its children
    flpc,            \* position in the step
    flpos,           \* number of units the current loop has handled
    newContents,    \* unit -> its printed text
    localSrcMap,    \* newSrcMap as printUnits fills it: unit -> node -> span
    flatSrcMap,     \* node -> span in the flattened text
    flatText        \* flatContents

flatVars == <<fshape, fversion, fchildren, flpc, flpos,
    newContents, localSrcMap, flatSrcMap, flatText>>

\* PART VIII: tcOrDie and prettyError
VARIABLES
    tcin,           \* the annotation handed to tcOrDie and what its check does
    tcpc,           \* position in tcOrDie
    tcexit,         \* how the process ended
    tcerr           \* what was written to stderr

tcVars == <<tcin, tcpc, tcexit, tcerr>>

vars == <<instrVars, renameVars, topoVars, driverVars, propertyMap, metaVars, envVars, flatVars, tcVars>>

\* what the actions of each part leave alone
instrOthers == <<renameVars, topoVars, driverVars, propertyMap, metaVars, envVars, flatVars, tcVars>>

renameOthers == <<instrVars, topoVars, driverVars, propertyMap, metaVars, envVars, flatVars, tcVars>>

topoOthers == <<instrVars, renameVars, driverVars, propertyMap, metaVars, envVars, flatVars, tcVars>>

driverOthers == <<instrVars, renameVars, topoVars, propertyMap, metaVars, envVars, flatVars, tcVars>>

metaOthers == <<instrVars, renameVars, topoVars, driverVars, envVars, flatVars, tcVars>>

envOthers == <<instrVars, renameVars, topoVars, driverVars, propertyMap, metaVars, flatVars, tcVars>>

flatOthers == <<instrVars, renameVars, topoVars, driverVars, propertyMap, metaVars, envVars, tcVars>>

tcOthers == <<instrVars, renameVars, topoVars, driverVars, propertyMap, metaVars, envVars, flatVars>>

(***************************************************************************)
(* Generic helpers.                                                        *)
(***************************************************************************)
Min(S) == CHOOSE x \in S : \A y \in S : x <= y

RECURSIVE SortedSeq(_)
\* the elements of a finite set of integers in ascending order
SortedSeq(S) == IF S = {} THEN << >> ELSE <<Min(S)>> \o SortedSeq(S \ {Min(S)})

Range(s) == {s[i] : i \in 1..Len(s)}

(***************************************************************************)
(* PART I: computeContractsNeedingInstr and instrumentFiles.               *)
(***************************************************************************)

Contracts == 1..NContracts

ContractKinds == {"contract", "interface", "library"}

\* the annotation lists a contract may carry after extraction
ContractAnnotLists == { << >>, <<"define">>, <<"invariant">> }

\* the functions every contract of the model declares: one per row of the
\* decision table of the wrapping condition
FunProfiles == <<
    [body |-> TRUE,  ext |-> TRUE,  changing |-> TRUE,  kind |-> "function",    annots |-> << >>],
    [body |-> TRUE,  ext |-> TRUE,  changing |-> TRUE,  kind |-> "function",    annots |-> <<"if_succeeds">>],
    [body |-> TRUE,  ext |-> TRUE,  changing |-> FALSE, kind |-> "function",    annots |-> << >>],
    [body |-> TRUE,  ext |-> FALSE, changing |-> TRUE,  kind |-> "function",    annots |-> << >>],
    [body |-> TRUE,  ext |-> TRUE,  changing |-> TRUE,  kind |-> "constructor", annots |-> << >>],
    [body |-> TRUE,  ext |-> TRUE,  changing |-> TRUE,  kind |-> "fallback",    annots |-> << >>],
    [body |-> TRUE,  ext |-> TRUE,  changing |-> TRUE,  kind |-> "receive",     annots |-> << >>],
    [body |-> FALSE, ext |-> TRUE,  changing |-> TRUE,  kind |-> "function",    annots |-> <<"if_succeeds">>],
    [body |-> TRUE,  ext |-> FALSE, changing |-> FALSE, kind |-> "function",    annots |-> <<"if_succeeds">>]
>>

Funs == 1..Len(FunProfiles)

\* unit.vContracts: the units hold the contracts two by two, in order
unitOf(c) == (c + 1) \div 2

\* cha.children: the contracts that name c as a direct base
chaChildren(c) == {d \in Contracts : c \in iparents[d]}

\* an inheritance graph the host compiler accepts: bases are declared earlier,
\* a library neither inherits nor is inherited, an interface inherits interfaces only
ValidCHA(kind, parents) ==
    \A c \in Contracts :
        /\ parents[c] \subseteq 1..(c - 1)
        /\ kind[c] = "library" => parents[c] = {}
        /\ \A p \in parents[c] : kind[p] # "library"
        /\ kind[c] = "interface" => \A p \in parents[c] : kind[p] = "interface"

isProperty(t) == t \in {"if_succeeds", "invariant"}

\* annots.filter((annot) => annot instanceof PropertyMetaData).length > 0
hasPropertyAnnot(annots) == \E i \in 1..Len(annots) : isProperty(annots[i])

RECURSIVE FilterSeq(_, _)
FilterSeq(s, S) ==
    IF s = << >> THEN << >>
    ELSE (IF Head(s) \in S THEN <<Head(s)>> ELSE << >>) \o FilterSeq(Tail(s), S)

RECURSIVE Reverse(_)
Reverse(s) == IF s = << >> THEN << >> ELSE Reverse(Tail(s)) \o <<Head(s)>>

\* the entries of contractAnnotMap, in insertion order (chaDFS: children first)
annotMapKeys(annots) == Reverse(SortedSeq({c \in Contracts : annots[c] # << >>}))

\* mutant: every contract of the map seeds the search
initialWaveAllEntries(annots) == annotMapKeys(annots)

\* the initial wave: the contracts of the map with a property annotation
initialWave(annots) ==
    FilterSeq(annotMapKeys(annots), {c \in Contracts : hasPropertyAnnot(annots[c])})

\* mutant: the search follows parent edges only
pushedFromParentsOnly(cur, vis) == SortedSeq({p \in iparents[cur] : p \notin vis})

\* the contracts pushed when cur is visited: unvisited parents, then unvisited children
pushedFrom(cur, vis) ==
    SortedSeq({p \in iparents[cur] : p \notin vis})
        \o SortedSeq({d \in chaChildren(cur) : d \notin vis})

InstrInit ==
    /\ ikind \in [Contracts -> ContractKinds]
    /\ iparents \in [Contracts -> SUBSET Contracts]
    /\ ValidCHA(ikind, iparents)
    /\ iannots \in [Contracts -> ContractAnnotLists]
    /\ ipc = "bfs"
    /\ wave = initialWave(iannots)
    /\ visited = {}
    /\ cpos = 1
    /\ fpos = 0
    /\ changed = FALSE
    /\ worklist = << >>
    /\ ctxAnnotations = << >>
    /\ changedSourceUnits = << >>
    /\ ipos = 0
    /\ instrumented = << >>
    /\ checkedTargets = << >>
    /\ propertyMap = << >>

InstrIdle ==
    /\ ikind = << >>
    /\ iparents = << >>
    /\ iannots = << >>
    /\ ipc = "idle"
    /\ wave = << >>
    /\ visited = {}
    /\ cpos = 0
    /\ fpos = 0
    /\ changed = FALSE
    /\ worklist = << >>
    /\ ctxAnnotations = << >>
    /\ changedSourceUnits = << >>
    /\ ipos = 0
    /\ instrumented = << >>
    /\ checkedTargets = << >>
    /\ propertyMap = << >>

\* one iteration of the while loop of computeContractsNeedingInstr
BfsStep ==
    /\ UNCHANGED instrOthers
    /\ ipc = "bfs"
    /\ wave # << >>
    /\ LET cur == wave[Len(wave)]
           rest == SubSeq(wave, 1, Len(wave) - 1)
       IN  IF cur \in visited
           THEN /\ wave' = rest
                /\ visited' = visited
           ELSE /\ visited' = visited \cup {cur}
                /\ wave' = rest \o pushedFrom(cur, visited \cup {cur})
    /\ UNCHANGED <<ikind, iparents, iannots, ipc, cpos, fpos, changed, worklist,
                   ctxAnnotations, changedSourceUnits, ipos, instrumented, checkedTargets>>

\* the loop ends and the visited set is returned as contractsNeedingInstr
BfsReturn ==
    /\ UNCHANGED instrOthers
    /\ ipc = "bfs"
    /\ wave = << >>
    /\ ipc' = "collect"
    /\ UNCHANGED <<ikind, iparents, iannots, wave, visited, cpos, fpos, changed, worklist,
                   ctxAnnotations, changedSourceUnits, ipos, instrumented, checkedTargets>>

\* one record of ctx.annotations per annotation of the target
annotRecords(c, f, annots) ==
    [i \in 1..Len(annots) |-> [contract |-> c, fn |-> f, type |-> annots[i]]]

\* contractAnnot.filter((annot) => annot instanceof UserFunctionDefinitionMetaData)
userFunsOf(annots) == FilterSeq(annots, {"define"})

\* mutant: only a contract with annotations of its own gets an entry
needsContractEntryOwnAnnots(needsStateInvariantInstr, contractAnnot) == Len(contractAnnot) > 0

\* whether the contract gets a contract-level worklist entry
needsContractEntry(needsStateInvariantInstr, contractAnnot) ==
    needsStateInvariantInstr \/ Len(userFunsOf(contractAnnot)) > 0

\* mutant: interfaces are not skipped
skipsContractNever(kind) == FALSE

\* 'Nothing to instrument on interfaces': the contract is skipped
skipsContract(kind) == kind = "interface"

\* the assertion that follows the push of a contract-level entry fails
contractAssertFails(kind) == kind \in {"library", "interface"}

\* mutant: the function kind is not looked at, so constructors are wrapped too
interposesAnyKind(kind, needsStateInvariantInstr, fun) ==
    \/ Len(fun.annots) > 0
    \/ /\ needsStateInvariantInstr
       /\ fun.ext
       /\ fun.changing
       /\ kind = "contract"

\* the condition under which a function with a body is interposed on
interposes(kind, needsStateInvariantInstr, fun) ==
    \/ Len(fun.annots) > 0
    \/ /\ needsStateInvariantInstr
       /\ fun.ext
       /\ fun.changing
       /\ kind = "contract"
       /\ fun.kind = "function"

\* the flag the instrumenters receive: contractsNeedingInstr.has(contract)
needsFlag(c) == c \in visited

\* mutant: the instrumentation starts after the first contract
collectDoneEarly(c) == TRUE

\* 'for (const unit of units)' is over after the last contract of the last unit
collectDone(c) == c = NContracts

\* 'Skip functions without a body': the annotations of the others are
\* extracted and checked
checksFunction(fun) == fun.body

\* mutant: every iteration takes the first entry
nextEntryFirst(w, n) == w[1]

\* the entry that iteration n + 1 of 'for (... of worklist)' takes
nextEntry(w, n) == w[n + 1]

\* the end of the body of 'for (const contract of unit.vContracts)' for contract
\* cpos, with the end of the unit's body when cpos is the unit's last contract
NextContract(changedNow) ==
    /\ cpos' = cpos + 1
    /\ fpos' = 0
    /\ IF cpos = NContracts \/ unitOf(cpos + 1) # unitOf(cpos)
       THEN /\ changed' = FALSE
            /\ changedSourceUnits' =
                   IF changedNow THEN Append(changedSourceUnits, unitOf(cpos))
                   ELSE changedSourceUnits
       ELSE /\ changed' = changedNow
            /\ changedSourceUnits' = changedSourceUnits
    /\ ipc' = IF collectDone(cpos) THEN "instrument" ELSE "collect"

\* instrumentFiles, the contract-level part of the loop body for one contract
CollectContract ==
    /\ UNCHANGED instrOthers
    /\ ipc = "collect"
    /\ fpos = 0
    /\ LET c == cpos
           contractAnnot == iannots[c]
           needsStateInvariantInstr == c \in visited
       IN  IF skipsContract(ikind[c])
           THEN /\ NextContract(changed)
                /\ UNCHANGED <<worklist, ctxAnnotations>>
           ELSE IF needsContractEntry(needsStateInvariantInstr, contractAnnot)
           THEN /\ worklist' = Append(worklist,
                                      [contract |-> c, fn |-> 0, annots |-> contractAnnot])
                /\ ctxAnnotations' = ctxAnnotations \o annotRecords(c, 0, contractAnnot)
                /\ changed' = TRUE
                /\ IF contractAssertFails(ikind[c])
                   THEN /\ ipc' = "assert"
                        /\ UNCHANGED <<cpos, fpos>>
                   ELSE /\ fpos' = 1
                        /\ UNCHANGED <<ipc, cpos>>
                /\ UNCHANGED changedSourceUnits
           ELSE /\ fpos' = 1
                /\ UNCHANGED <<ipc, cpos, changed, worklist, ctxAnnotations,
                               changedSourceUnits>>
    /\ UNCHANGED <<ikind, iparents, iannots, wave, visited, ipos, instrumented>>
    /\ checkedTargets' = Append(checkedTargets, <<cpos, 0>>)

\* instrumentFiles, the loop body for one function of the current contract
CollectFunction ==
    /\ UNCHANGED instrOthers
    /\ ipc = "collect"
    /\ fpos >= 1
    /\ LET c == cpos
           fun == FunProfiles[fpos]
           wrap == fun.body /\ interposes(ikind[c], c \in visited, fun)
           changedNow == changed \/ wrap
       IN  /\ worklist' = IF wrap
                          THEN Append(worklist,
                                      [contract |-> c, fn |-> fpos, annots |-> fun.annots])
                          ELSE worklist
           /\ ctxAnnotations' = IF wrap
                                THEN ctxAnnotations \o annotRecords(c, fpos, fun.annots)
                                ELSE ctxAnnotations
           /\ IF fpos = Len(FunProfiles)
              THEN NextContract(changedNow)
              ELSE /\ fpos' = fpos + 1
                   /\ changed' = changedNow
                   /\ UNCHANGED <<ipc, cpos, changedSourceUnits>>
    /\ UNCHANGED <<ikind, iparents, iannots, wave, visited, ipos, instrumented>>
    /\ checkedTargets' = IF checksFunction(FunProfiles[fpos])
                       THEN Append(checkedTargets, <<cpos, fpos>>)
                       ELSE checkedTargets

\* one iteration of 'for (const [contract, fn, annotations] of worklist)'
InstrumentStep ==
    /\ UNCHANGED instrOthers
    /\ ipc = "instrument"
    /\ ipos < Len(worklist)
    /\ LET e == nextEntry(worklist, ipos)
       IN  instrumented' = Append(instrumented,
                                  [contract |-> e.contract, fn |-> e.fn,
                                   annots |-> e.annots, needs |-> needsFlag(e.contract)])
    /\ ipos' = ipos + 1
    /\ UNCHANGED <<ikind, iparents, iannots, ipc, wave, visited, cpos, fpos, changed,
                   worklist, ctxAnnotations, changedSourceUnits, checkedTargets>>

\* instrumentFiles returns [units, changedSourceUnits]
InstrumentReturn ==
    /\ UNCHANGED instrOthers
    /\ ipc = "instrument"
    /\ ipos = Len(worklist)
    /\ ipc' = "done"
    /\ UNCHANGED <<ikind, iparents, iannots, wave, visited, cpos, fpos, changed,
                   worklist, ctxAnnotations, changedSourceUnits, ipos, instrumented, checkedTargets>>

\* annotation.id: the number the extractor gave the annotation of function fn
\* (0: the contract itself) of the contract
annotationId(a) == (a.contract - 1) * (Len(FunProfiles) + 1) + a.fn

\* annotation.message: the label the user gave the annotation
annotationMessage(a) == a.type \o " #" \o ToString(annotationId(a))

\* the target type of the record: "function" or "contract"
targetTypeOf(a) == IF a.fn = 0 THEN "contract" ELSE "function"

RECURSIVE generatePropertyMap(_)
\* generatePropertyMap: one record for each PropertyMetaData of ctx.annotations
generatePropertyMap(annotations) ==
    IF annotations = << >> THEN << >>
    ELSE LET annotation == Head(annotations)
         IN  (IF ~isProperty(annotation.type) THEN << >>
              ELSE <<[id |-> annotationId(annotation),
                      contract |-> annotation.contract,
                      target |-> targetTypeOf(annotation),
                      message |-> annotationMessage(annotation)]>>)
             \o generatePropertyMap(Tail(annotations))

\* generateInstrumentationMetadata: const propertyMap = generatePropertyMap(ctx, ...)
GeneratePropertyMap ==
    /\ UNCHANGED <<renameVars, topoVars, driverVars, metaVars, envVars, flatVars, tcVars>>
    /\ ipc = "done"
    /\ propertyMap' = generatePropertyMap(ctxAnnotations)
    /\ ipc' = "metadata"
    /\ UNCHANGED <<ikind, iparents, iannots, wave, visited, cpos, fpos, changed,
                   worklist, ctxAnnotations, changedSourceUnits, ipos, instrumented, checkedTargets>>

InstrNext ==
    \/ BfsStep
    \/ BfsReturn
    \/ CollectContract
    \/ CollectFunction
    \/ InstrumentStep
    \/ InstrumentReturn
    \/ GeneratePropertyMap

(***************************************************************************)
(* Properties of PART I.                                                   *)
(***************************************************************************)
\* the contracts that carry at least one if_succeeds/invariant annotation
AnnotatedContracts ==
    {c \in Contracts : \E i \in 1..Len(iannots[c]) : iannots[c][i] \in {"if_succeeds", "invariant"}}

\* a and b are joined by an inheritance edge, in either direction
Linked(a, b) == a \in iparents[b] \/ b \in iparents[a]

RECURSIVE LinkClosure(_)
\* the least set that contains S and is closed under inheritance edges
LinkClosure(S) ==
    LET T == S \cup {c \in Contracts : \E a \in S : Linked(a, c)}
    IN  IF T = S THEN S ELSE LinkClosure(T)

\* the contracts whose connected component holds a property annotation
ComponentsWithProperty == LinkClosure(AnnotatedContracts)

RECURSIVE BasesOf(_)
\* c and all its direct and transitive bases
BasesOf(c) == {c} \cup UNION {BasesOf(p) : p \in iparents[c]}

\* the contract-level and function-level calls made to the instrumenters
ContractCalls == {instrumented[i] : i \in {j \in 1..Len(instrumented) : instrumented[j].fn = 0}}

FunctionCalls == {instrumented[i] : i \in {j \in 1..Len(instrumented) : instrumented[j].fn # 0}}

OnWorklist(c, f) == \E i \in 1..Len(worklist) : worklist[i].contract = c /\ worklist[i].fn = f

\* function f of contract c has been through the collection loop
Collected(c, f) == ipc # "idle" /\ (c < cpos \/ (c = cpos /\ f < fpos))

\* C1: computeContractsNeedingInstr returns exactly the contracts whose connected
\* component of the inheritance graph (parent and child edges, either direction)
\* contains a contract with at least one property annotation.
C1_NeedingInstrIsComponents ==
    ipc \in {"collect", "instrument", "done", "assert"} => visited = ComponentsWithProperty

\* C1 witness: the search has returned a set that holds an unannotated contract
\* reached over a child edge and one reached over a parent edge.
C1_Witness ==
    /\ ipc = "collect"
    /\ \E a \in AnnotatedContracts, b \in visited \ AnnotatedContracts : a \in iparents[b]
    /\ \E a \in AnnotatedContracts, b \in visited \ AnnotatedContracts : b \in iparents[a]

\* C2 as stated: after instrumentFiles the contracts handed to the contract
\* instrumenter with the needs-invariant flag true are exactly the contracts of
\* the components that hold a property annotation.
C2_Original ==
    ipc = "done" => {e.contract : e \in {x \in ContractCalls : x.needs}} = ComponentsWithProperty

\* C2 amended: after instrumentFiles the contracts handed to the contract
\* instrumenter with the needs-invariant flag true are exactly the non-interface
\* contracts of the components that hold a property annotation.
C2_HandedAreNonInterfaceComponents ==
    ipc = "done" =>
        {e.contract : e \in {x \in ContractCalls : x.needs}}
            = {c \in ComponentsWithProperty : ikind[c] # "interface"}

\* C2 witness: a finished run that handed over a derived, unannotated contract
\* with the flag true, skipped an interface of the same component and handed
\* over some contract with the flag false.
C2_Witness ==
    /\ ipc = "done"
    /\ \E e \in ContractCalls : e.needs /\ e.contract \notin AnnotatedContracts
    /\ \E c \in ComponentsWithProperty : ikind[c] = "interface"
    /\ \E e \in ContractCalls : ~e.needs

\* C3 as stated: no interface or library is ever on the worklist as a
\* contract-level entry.
C3_Original ==
    \A i \in 1..Len(worklist) :
        worklist[i].fn = 0 => ikind[worklist[i].contract] \notin {"interface", "library"}

\* C3 amended: no interface is ever on the worklist as a contract-level entry; a
\* library is on it only as the last entry of a run that the assertion has
\* aborted, which happens exactly when a library qualifies; and no interface or
\* library is ever handed to the contract instrumenter.
C3_NoInterfaceOrLibraryInstrumented ==
    /\ \A i \in 1..Len(worklist) :
          worklist[i].fn = 0 =>
              /\ ikind[worklist[i].contract] # "interface"
              /\ ikind[worklist[i].contract] = "library" => (ipc = "assert" /\ i = Len(worklist))
    /\ \A e \in ContractCalls : ikind[e.contract] = "contract"
    /\ ipc = "assert" =>
          /\ instrumented = << >>
          /\ ikind[cpos] = "library"
          /\ (cpos \in ComponentsWithProperty \/ "define" \in Range(iannots[cpos]))
    /\ \A c \in Contracts :
          ~(/\ Collected(c, 0)
            /\ ikind[c] = "library"
            /\ (c \in ComponentsWithProperty \/ "define" \in Range(iannots[c])))

\* C3 witness: a qualifying library has aborted the run after an interface that
\* carries a define annotation was skipped.
C3_Witness ==
    /\ ipc = "assert"
    /\ ikind[cpos] = "library"
    /\ \E c \in 1..(cpos - 1) : ikind[c] = "interface" /\ "define" \in Range(iannots[c])

\* the wrapping condition of the claim, for function f of contract c
C4_Qualifies(c, f) ==
    \/ Len(FunProfiles[f].annots) > 0
    \/ /\ c \in ComponentsWithProperty
       /\ FunProfiles[f].ext
       /\ FunProfiles[f].changing
       /\ FunProfiles[f].kind \notin {"constructor", "fallback", "receive"}
       /\ ikind[c] = "contract"

\* C4: a function with a body in a non-interface contract is on the worklist iff
\* it has an annotation, or its contract needs invariant instrumentation and it is
\* an externally visible, state-changing regular function of a contract of kind
\* contract; so when a base carries an invariant, each such function of the base
\* and of every derived contract is wrapped, with the needs-invariant flag true.
C4_FunctionWrappedIff ==
    LET needing == ComponentsWithProperty
        keys == {<<worklist[i].contract, worklist[i].fn>> : i \in 1..Len(worklist)}
        qualifies(c, f) ==
            \/ Len(FunProfiles[f].annots) > 0
            \/ /\ c \in needing
               /\ FunProfiles[f].ext
               /\ FunProfiles[f].changing
               /\ FunProfiles[f].kind \notin {"constructor", "fallback", "receive"}
               /\ ikind[c] = "contract"
    IN
    /\ \A c \in Contracts, f \in Funs :
          (Collected(c, f) /\ ikind[c] # "interface" /\ FunProfiles[f].body)
          => (<<c, f>> \in keys <=> qualifies(c, f))
    /\ \A i \in 1..Len(instrumented) :
          instrumented[i].fn # 0 =>
              (instrumented[i].needs <=> instrumented[i].contract \in needing)
    /\ ipc = "done" =>
          \A c \in Contracts, f \in Funs :
              (/\ \E b \in BasesOf(c) : "invariant" \in Range(iannots[b])
               /\ ikind[c] = "contract"
               /\ FunProfiles[f].body /\ FunProfiles[f].ext /\ FunProfiles[f].changing
               /\ FunProfiles[f].kind = "function")
              => \E e \in FunctionCalls : e.contract = c /\ e.fn = f /\ e.needs

\* C4 witness: a finished run in which a base carries an invariant and a derived
\* contract had its public state-changing function wrapped with the flag true,
\* its view function and its constructor left alone.
C4_Witness ==
    /\ ipc = "done"
    /\ \E b \in Contracts, c \in Contracts :
          /\ b # c
          /\ b \in BasesOf(c)
          /\ "invariant" \in Range(iannots[b])
          /\ iannots[c] = << >>
          /\ \E e \in FunctionCalls : e.contract = c /\ e.fn = 1 /\ e.needs
          /\ ~OnWorklist(c, 3)
          /\ ~OnWorklist(c, 5)

\* the annotations of the input that pass the filters: those of the contracts
\* and those of their functions (the functions of an interface have no body)
InputAnnotations ==
    {a \in [contract : Contracts, fn : {0}, type : {"if_succeeds", "invariant", "define"}] :
        a.type \in Range(iannots[a.contract])}
    \cup
    {a \in [contract : Contracts, fn : Funs, type : {"if_succeeds", "invariant", "define"}] :
        /\ a.type \in Range(FunProfiles[a.fn].annots)
        /\ ikind[a.contract] = "interface" => ~FunProfiles[a.fn].body}

\* the records of propertyMap for annotation a
RecordsOf(a) ==
    {i \in 1..Len(propertyMap) :
        propertyMap[i].id = annotationId(a) /\ propertyMap[i].message = annotationMessage(a)}

\* C17: for each if_succeeds/invariant annotation of the input propertyMap has
\* exactly one record with the annotation's id and message; a define
\* annotation has no record.
C17_OneRecordPerProperty ==
    ipc = "metadata" =>
        \A a \in InputAnnotations :
            IF isProperty(a.type)
            THEN Cardinality(RecordsOf(a)) = 1
            ELSE \A i \in 1..Len(propertyMap) : propertyMap[i].id # annotationId(a)


RECURSIVE TargetsFrom(_)
\* the targets whose annotations instrumentFiles extracts and checks, in the
\* order of the units: each contract, then the functions with a body of a
\* contract that is not an interface
TargetsFrom(c) ==
    IF c > NContracts THEN << >>
    ELSE <<<<c, 0>>>>
           \o (IF ikind[c] = "interface" THEN << >>
               ELSE LET withBody == SortedSeq({f \in Funs : FunProfiles[f].body})
                    IN  [i \in 1..Len(withBody) |-> <<c, withBody[i]>>])
           \o TargetsFrom(c + 1)

\* C24: within instrumentFiles the extraction and the check of the
\* annotations of every contract and function that has them extracted are over
\* before the first call of the contract or function instrumenter: once an
\* instrumenter was called the list of checked targets is the complete one,
\* so no annotation is extracted or checked afterwards.
C24_ChecksBeforeInstrumentation ==
    instrumented # << >> =>
       /\ checkedTargets = TargetsFrom(1)
       /\ ipc \in {"instrument", "done", "metadata"}

C24_Witness ==
    /\ Len(instrumented) >= 2
    /\ ipc = "instrument"
    /\ \E i \in 1..Len(checkedTargets) :
          checkedTargets[i][1] = NContracts /\ checkedTargets[i][2] > 0
    /\ \E c \in Contracts : ikind[c] = "interface"

\* the key of an entry of the worklist
KeyOf(e) == <<e.contract, e.fn>>

\* no two entries of the list have the same key, and the entry of a contract
\* comes before the entries of its functions
OncePerKey(list) ==
    /\ Cardinality({KeyOf(list[i]) : i \in 1..Len(list)}) = Len(list)
    /\ \A i \in 1..Len(list) :
          list[i].fn = 0 => \A j \in 1..(i - 1) : list[j].contract # list[i].contract

\* C26: in one run the worklist holds at most one contract-level entry per
\* contract and at most one entry per pair of contract and function, the entry
\* of a contract comes before the entries of its functions, and each contract
\* and each function is instrumented at most once, in the order of the
\* worklist.
C26_OncePerKey ==
    /\ OncePerKey(worklist)
    /\ OncePerKey(instrumented)
    /\ Len(instrumented) <= Len(worklist)
    /\ \A i \in 1..Len(instrumented) : KeyOf(instrumented[i]) = KeyOf(worklist[i])

C26_Witness ==
    /\ ipc = "done"
    /\ \E i \in 1..Len(instrumented), j \in 1..Len(instrumented) :
          /\ instrumented[i].contract = instrumented[j].contract
          /\ instrumented[i].fn = 0
          /\ instrumented[j].fn # 0
    /\ Len(instrumented) >= 4

\* the contracts whose only annotations are define user functions
DefineOnly ==
    {c \in Contracts : iannots[c] # << >> /\ \A i \in 1..Len(iannots[c]) : iannots[c][i] = "define"}

RECURSIVE Connected(_, _)
\* the contracts reached from the set S along at most n inheritance edges
Connected(S, n) ==
    IF n = 0 THEN S
    ELSE Connected(S \cup UNION {iparents[c] \cup chaChildren(c) : c \in S}, n - 1)

\* no contract connected to c by inheritance has a property annotation
NoPropertyAround(c) ==
    \A d \in Connected({c}, NContracts) : \A i \in 1..Len(iannots[d]) :
       iannots[d][i] \notin {"if_succeeds", "invariant"}

\* the contract-level calls of the instrumenter for contract c
ContractCallsOf(c) ==
    {i \in 1..Len(instrumented) : instrumented[i].contract = c /\ instrumented[i].fn = 0}

\* C29 as stated: a contract whose only annotations are define user functions
\* does not seed the search, so with no property annotation around it neither
\* it nor its parents and children need invariant instrumentation; the
\* contract itself is still placed on the worklist and handed to the contract
\* instrumenter, with the flag false.
C29_Original ==
    \A c \in DefineOnly :
       LET quiet == NoPropertyAround(c)
       IN  /\ (ipc = "bfs" /\ visited = {}) => c \notin Range(wave)
           /\ quiet => Connected({c}, NContracts) \cap visited = {}
           /\ ipc \in {"done", "metadata"} =>
                 /\ \E i \in 1..Len(worklist) : KeyOf(worklist[i]) = <<c, 0>>
                 /\ ContractCallsOf(c) # {}
                 /\ quiet => \A i \in ContractCallsOf(c) : ~instrumented[i].needs

\* C29, amended: as stated for a define-only contract that is not an
\* interface; an interface is not placed on the worklist. A run with a
\* define-only library does not return: the library is placed on the worklist
\* and the assertion that follows stops the run.
C29_DefineOnly ==
    \A c \in DefineOnly :
       LET quiet == NoPropertyAround(c)
       IN  /\ (ipc = "bfs" /\ visited = {}) => c \notin Range(wave)
           /\ (quiet /\ visited # {}) => Connected({c}, NContracts) \cap visited = {}
           /\ ikind[c] = "interface" =>
                 \A i \in 1..Len(worklist) : worklist[i].contract # c
           /\ ikind[c] = "library" =>
                 /\ ipc \notin {"instrument", "done", "metadata"}
                 /\ ContractCallsOf(c) = {}
                 /\ ipc = "assert" => KeyOf(worklist[Len(worklist)]) = <<cpos, 0>>
           /\ (ipc \in {"done", "metadata"} /\ ikind[c] = "contract") =>
                 /\ \E i \in 1..Len(worklist) : KeyOf(worklist[i]) = <<c, 0>>
                 /\ ContractCallsOf(c) # {}
                 /\ quiet => \A i \in ContractCallsOf(c) : ~instrumented[i].needs

C29_Witness ==
    /\ ipc = "done"
    /\ \E c \in DefineOnly :
          /\ ikind[c] = "contract"
          /\ NoPropertyAround(c)
          /\ iparents[c] # {}
          /\ ContractCallsOf(c) # {}
    /\ \E c \in Contracts : iannots[c] = <<"invariant">>

(***************************************************************************)
(* PART II: fixNameConflicts and fixRenamingErrors.                        *)
(***************************************************************************)

RenameUnits == 1..NRenameUnits

\* the names top-level definitions have in the inputs
TopNames == {"C", "C_1"}

TopKinds == {"contract", "struct", "enum"}

\* what a unit may declare under each name; within a unit the names are distinct
UnitShapes ==
    {sh \in [TopNames -> TopKinds \cup {"none"}] : sh["C_1"] \in {"contract", "none"}}

\* a definition that a reference can name
Def(cls, unit, owner, kind, name) ==
    [cls |-> cls, unit |-> unit, owner |-> owner, kind |-> kind, name |-> name]

\* the top-level contracts, structs and enums of unit u
TopDefsOf(conf, u) ==
    {Def("top", u, "", conf[u][n], n) : n \in {m \in TopNames : conf[u][m] # "none"}}

TopDefs(conf) == UNION {TopDefsOf(conf, u) : u \in RenameUnits}

\* position of a name in source order
nameRank(n) == IF n = "C" THEN 1 ELSE 2

kindRank(k) == CASE k = "contract" -> 1 [] k = "struct" -> 2 [] k = "enum" -> 3

RECURSIVE OrderDefs(_)
\* unit.vContracts, then unit.vStructs, then unit.vEnums, each in source order
OrderDefs(S) ==
    IF S = {} THEN << >>
    ELSE LET d == CHOOSE x \in S : \A y \in S :
                      \/ kindRank(x.kind) < kindRank(y.kind)
                      \/ kindRank(x.kind) = kindRank(y.kind) /\ nameRank(x.name) <= nameRank(y.name)
         IN  <<d>> \o OrderDefs(S \ {d})

\* the members and locals of a top-level contract t
MemberOf(t, kind, name) == Def("member", t.unit, t.name, kind, name)

LocalOf(t, kind, name) == Def("local", t.unit, t.name, kind, name)

\* a file-level constant of unit u
FileConstant(u) == Def("file", u, "", "constant", "K")

\* the scope of a use site: a unit, a contract, or a contract derived from one
Scope(unit, owner, derived) == [unit |-> unit, owner |-> owner, derived |-> derived]

\* getTypeScope of a definition declared in a contract
DefScope(d) == Scope(d.unit, d.owner, FALSE)

Ref(tag, unit, scope, node, itype, target, base, name) ==
    [tag |-> tag, unit |-> unit, scope |-> scope, node |-> node, itype |-> itype,
     target |-> target, base |-> base, name |-> name]

NoDef == Def("none", 0, "", "none", "")

\* the references of unit u to the top-level definitions of all units
TopRefsOf(conf, u) ==
    UNION {
        {Ref("ident", u, Scope(u, "", FALSE), "Identifier", "userDefined", d, "none", d.name),
         Ref("type", u, Scope(u, "", FALSE), "UserDefinedTypeName", "none", d, "none", d.name)}
        \cup (IF d.unit # u
              THEN {Ref("alias", u, Scope(u, "", FALSE), "Identifier", "userDefined", d, "none", "A"),
                    Ref("unitMember", u, Scope(u, "", FALSE), "MemberAccess", "none", d, "import",
                        "M." \o d.name),
                    Ref("unitConstant", u, Scope(u, "", FALSE), "MemberAccess", "none",
                        FileConstant(d.unit), "import", "M.K")}
              ELSE {})
        : d \in TopDefs(conf)}

\* the references inside a top-level contract t and inside a contract derived from it
ContractRefsOf(t) ==
    LET in == Scope(t.unit, t.name, FALSE)
        sub == Scope(t.unit, t.name, TRUE)
    IN  {Ref("fun", t.unit, in, "Identifier", "userDefined", MemberOf(t, "function", "f"), "none", "f"),
         Ref("structType", t.unit, in, "UserDefinedTypeName", "none", MemberOf(t, "struct", "S"), "none", "S"),
         Ref("structIdent", t.unit, in, "Identifier", "userDefined", MemberOf(t, "struct", "S"), "none", "S"),
         Ref("enumType", t.unit, in, "UserDefinedTypeName", "none", MemberOf(t, "enum", "E"), "none", "E"),
         Ref("structQualified", t.unit, in, "UserDefinedTypeName", "none", MemberOf(t, "struct", "S"),
             "none", t.name \o ".S"),
         Ref("stateVar", t.unit, in, "Identifier", "userDefined", MemberOf(t, "statevar", "x"), "none", "x"),
         Ref("stateVarMember", t.unit, in, "MemberAccess", "none", MemberOf(t, "statevar", "x"),
             "contract", t.name \o ".x"),
         Ref("local", t.unit, in, "Identifier", "userDefined", LocalOf(t, "variable", "v"), "none", "v"),
         Ref("param", t.unit, in, "Identifier", "userDefined", LocalOf(t, "parameter", "p"), "none", "p"),
         Ref("builtin", t.unit, in, "Identifier", "builtin", NoDef, "none", "msg"),
         Ref("baseFun", t.unit, sub, "Identifier", "userDefined", MemberOf(t, "function", "f"), "none", "f"),
         Ref("baseStruct", t.unit, sub, "UserDefinedTypeName", "none", MemberOf(t, "struct", "S"), "none", "S")}

\* unit.getChildrenBySelector(Identifier | UserDefinedTypeName | MemberAccess)
RefsOf(conf, u) ==
    TopRefsOf(conf, u)
        \cup UNION {ContractRefsOf(t) : t \in {d \in TopDefsOf(conf, u) : d.kind = "contract"}}

AllRefs(conf) == UNION {RefsOf(conf, u) : u \in RenameUnits}

RenameInit ==
    /\ rconf \in [RenameUnits -> UnitShapes]
    /\ rpc = "collect"
    /\ rpos = 1
    /\ nameMap = << >>
    /\ defName = [d \in TopDefs(rconf) |-> d.name]
    /\ refs = [r \in AllRefs(rconf) |-> [node |-> r.node, name |-> r.name]]

RenameIdle ==
    /\ rconf = << >>
    /\ rpc = "idle"
    /\ rpos = 0
    /\ nameMap = << >>
    /\ defName = << >>
    /\ refs = << >>

RECURSIVE PushAll(_, _)
\* getOrInit(def.name, nameMap, []).push(def), for each definition of the list
PushAll(m, defs) ==
    IF defs = << >> THEN m
    ELSE LET d == Head(defs)
             k == defName[d]
             m2 == IF k \in DOMAIN m THEN [m EXCEPT ![k] = Append(@, d)]
                   ELSE m @@ (k :> <<d>>)
         IN  PushAll(m2, Tail(defs))

\* fixNameConflicts, first loop: the definitions of one unit enter nameMap
CollectNames ==
    /\ UNCHANGED renameOthers
    /\ rpc = "collect"
    /\ rpos <= NRenameUnits
    /\ nameMap' = PushAll(nameMap, OrderDefs(TopDefsOf(rconf, rpos)))
    /\ rpos' = rpos + 1
    /\ UNCHANGED <<rconf, rpc, defName, refs>>

\* mutant: the suffix counts from the second definition of the group
suffixedOffByOne(name, defIdx) == name \o "_" \o ToString(defIdx + 1)

\* def.name += `_${defIdx}`
suffixed(name, defIdx) == name \o "_" \o ToString(defIdx)

\* the name of definition d after the second loop of fixNameConflicts
renamedTo(m, d) ==
    LET defs == m[defName[d]]
        defIdx == (CHOOSE i \in 1..Len(defs) : defs[i] = d) - 1
    IN  IF defIdx >= 1 THEN suffixed(defName[d], defIdx) ELSE defName[d]

\* fixNameConflicts, second loop: all definitions after the first of a group are renamed
RenameDefs ==
    /\ UNCHANGED renameOthers
    /\ rpc = "collect"
    /\ rpos = NRenameUnits + 1
    /\ defName' = [d \in DOMAIN defName |-> renamedTo(nameMap, d)]
    /\ rpc' = "fix"
    /\ rpos' = 1
    /\ UNCHANGED <<rconf, nameMap, refs>>

\* mutant: the name a top-level definition had before fixNameConflicts is used
getFQNameStale(def, useScope) ==
    IF def.cls \in {"top", "file"} THEN def.name
    ELSE IF def.kind = "function" /\ DefScope(def) = useScope THEN def.name
    ELSE defName[Def("top", def.unit, "", "contract", def.owner)] \o "." \o def.name

\* mutant: a function of the contract of the use site is qualified like any member
getFQNameAlwaysQualified(def, useScope) ==
    IF def.cls = "top" THEN defName[def]
    ELSE IF def.cls = "file" THEN def.name
    ELSE defName[Def("top", def.unit, "", "contract", def.owner)] \o "." \o def.name

\* getFQName(def, atUseSite)
getFQName(def, useScope) ==
    IF def.cls = "top" THEN defName[def]
    ELSE IF def.cls = "file" THEN def.name
    ELSE IF def.kind = "function" /\ DefScope(def) = useScope THEN def.name
    ELSE defName[Def("top", def.unit, "", "contract", def.owner)] \o "." \o def.name

\* factory.makeIdentifierFor(def): an identifier that reads the definition's name
identifierFor(def) ==
    [node |-> "Identifier", name |-> IF def.cls = "top" THEN defName[def] ELSE def.name]

\* def is a contract, struct, enum, function or variable declaration
isMaterial(def) == def.cls \in {"top", "member", "local", "file"}

isVariable(def) == def.kind \in {"statevar", "variable", "parameter", "constant"}

\* the variable's vScope is a SourceUnit or a ContractDefinition
hasUnitOrContractScope(def) == def.cls \in {"member", "file"}

\* the body of the inner loop of fixRenamingErrors for reference r in state cur
fixedRef(r, cur) ==
    IF cur.node = "Identifier" /\ r.itype # "userDefined" THEN cur
    ELSE IF ~isMaterial(r.target) THEN cur
    ELSE IF isVariable(r.target)
            /\ ~(hasUnitOrContractScope(r.target) /\ cur.node = "MemberAccess") THEN cur
    ELSE IF cur.node = "MemberAccess"
         THEN (IF r.base = "import" THEN identifierFor(r.target) ELSE cur)
    ELSE IF getFQName(r.target, r.scope) # cur.name
         THEN [cur EXCEPT !.name = getFQName(r.target, r.scope)]
    ELSE cur

\* fixRenamingErrors, the loop body for one unit
FixUnitRefs ==
    /\ UNCHANGED renameOthers
    /\ rpc = "fix"
    /\ rpos <= NRenameUnits
    /\ refs' = [r \in DOMAIN refs |-> IF r.unit = rpos THEN fixedRef(r, refs[r]) ELSE refs[r]]
    /\ rpos' = rpos + 1
    /\ UNCHANGED <<rconf, rpc, nameMap, defName>>

\* fixRenamingErrors returns
FixReturn ==
    /\ UNCHANGED renameOthers
    /\ rpc = "fix"
    /\ rpos = NRenameUnits + 1
    /\ rpc' = "done"
    /\ UNCHANGED <<rconf, rpos, nameMap, defName, refs>>

RenameNext ==
    \/ CollectNames
    \/ RenameDefs
    \/ FixUnitRefs
    \/ FixReturn

(***************************************************************************)
(* Properties of PART II.                                                  *)
(***************************************************************************)
\* fixNameConflicts has run
Renamed == rpc \in {"fix", "done"}

\* e comes before d in the order of the claim: unit order, then contracts before
\* structs before enums
Precedes(e, d) ==
    \/ e.unit < d.unit
    \/ e.unit = d.unit /\ kindRank(e.kind) < kindRank(d.kind)

\* the position of d among the top-level definitions that share its original name
GroupPosition(d) ==
    Cardinality({e \in TopDefs(rconf) : e.name = d.name /\ e # d /\ Precedes(e, d)})

\* C5 as stated: after fixNameConflicts no two distinct top-level contracts,
\* structs or enums have the same name.
C5_NamesDistinct ==
    Renamed => \A d \in DOMAIN defName, e \in DOMAIN defName : d # e => defName[d] # defName[e]

\* C6: in each group of equally named top-level definitions, taken in unit order
\* (contracts before structs before enums within a unit), the first keeps its
\* name and the one at position i >= 1 is renamed name_i; a definition with a
\* unique name keeps it.
C6_FirstKeepsOthersSuffixed ==
    Renamed =>
        \A d \in DOMAIN defName :
            defName[d] = IF GroupPosition(d) = 0 THEN d.name
                         ELSE d.name \o "_" \o ToString(GroupPosition(d))

\* C6 witness: three units declare C; they are now C, C_1 and C_2, and a
\* definition with a unique name has kept it.
C6_Witness ==
    /\ Renamed
    /\ \E d \in DOMAIN defName : d.name = "C" /\ defName[d] = "C_2"
    /\ \E d \in DOMAIN defName : d.name = "C" /\ defName[d] = "C_1"
    /\ \E d \in DOMAIN defName : d.name = "C" /\ defName[d] = "C"

\* C7: after both passes every user-defined Identifier and UserDefinedTypeName
\* that refers to a top-level definition reads the definition's name: the new
\* name when it was renamed, the old one when it kept its name.
C7_ReferencesCarryNewName ==
    rpc = "done" =>
        \A r \in DOMAIN refs :
            (refs[r].node \in {"Identifier", "UserDefinedTypeName"} /\ r.target.cls = "top")
            => /\ refs[r].name = defName[r.target]
               /\ GroupPosition(r.target) = 0 => refs[r].name = r.target.name
               /\ GroupPosition(r.target) > 0 => refs[r].name # r.target.name

\* C7 witness: two units declare contract C; the references to the second read
\* C_1 and those to the first still read C.
C7_Witness ==
    /\ rpc = "done"
    /\ \E r \in DOMAIN refs :
          /\ r.tag = "type" /\ r.target.name = "C" /\ r.target.kind = "contract"
          /\ r.name = "C" /\ refs[r].name = "C_1"
    /\ \E r \in DOMAIN refs :
          /\ r.tag = "ident" /\ r.target.name = "C" /\ r.target.kind = "contract"
          /\ refs[r].name = "C"

\* the reference reads what it read before fixRenamingErrors
Untouched(r) == refs[r] = [node |-> r.node, name |-> r.name]

\* the referent is a member of the very contract the reference occurs in
SameContract(r) == r.target.cls \in {"member", "local"} /\ r.scope = DefScope(r.target)

\* the referent is a top-level definition that fixNameConflicts renamed
ToRenamedTopLevel(r) == r.target.cls = "top" /\ defName[r.target] # r.target.name

\* the reference goes through an import alias
ThroughImport(r) == r.tag \in {"alias", "unitMember", "unitConstant"}

TopoUnits == 1..NTopoUnits

\* the separator the join puts between two units
NewLine == "\n"

\* print: the text of a unit, a run of characters; the first unit of the
\* flattened output carries the inserted compiler pragma
unitText(u, first) ==
    (IF first THEN <<"pragma">> ELSE << >>) \o [i \in 1..u |-> ToString(u)]

TopoInit ==
    /\ timports \in [TopoUnits -> SUBSET TopoUnits]
    /\ tpc = "build"
    /\ importersM = [u \in TopoUnits |-> << >>]
    /\ nImportsM = [u \in TopoUnits |-> 0]
    /\ q = << >>
    /\ sorted = << >>
    /\ jpos = 0
    /\ flatContents = << >>
    /\ flatOut = << >>

TopoIdle ==
    /\ timports = << >>
    /\ tpc = "idle"
    /\ importersM = << >>
    /\ nImportsM = << >>
    /\ q = << >>
    /\ sorted = << >>
    /\ jpos = 0
    /\ flatContents = << >>
    /\ flatOut = << >>

RECURSIVE importersAfter(_, _)
\* importersM after the first loop has run over the units of the list us:
\* each unit is added to the importer set of every unit it imports
importersAfter(m, us) ==
    IF us = << >> THEN m
    ELSE LET u == Head(us)
         IN  importersAfter([x \in TopoUnits |->
                                IF x \in timports[u] /\ u \notin Range(m[x])
                                THEN Append(m[x], u) ELSE m[x]],
                            Tail(us))

\* nImportsM.set(unit, importees.size)
importCount(u) == Cardinality(timports[u])

\* mutant: the queue starts with all units
readyUnitsUnfiltered(n) == SortedSeq(TopoUnits)

\* units.filter((unit) => nImportsM.get(unit) === 0)
readyUnits(n) == SortedSeq({u \in TopoUnits : n[u] = 0})

\* topoSort up to the loop: the two maps and the initial queue
BuildMaps ==
    /\ UNCHANGED topoOthers
    /\ tpc = "build"
    /\ importersM' = importersAfter(importersM, SortedSeq(TopoUnits))
    /\ nImportsM' = [u \in TopoUnits |-> importCount(u)]
    /\ q' = readyUnits(nImportsM')
    /\ tpc' = "sort"
    /\ UNCHANGED <<timports, sorted, jpos, flatContents, flatOut>>

\* mutant: the importer goes to the front of the queue
pushFront(queue, importer) == <<importer>> \o queue

\* q.push(importer)
push(queue, importer) == Append(queue, importer)

RECURSIVE releaseImporters(_, _, _)
\* the for loop over the importers of cur: <<nImportsM, q, assertion failed>>
releaseImporters(st, importers, failed) ==
    IF importers = << >> \/ failed THEN <<st[1], st[2], failed>>
    ELSE LET importer == Head(importers)
             newNImports == st[1][importer] - 1
         IN  IF newNImports < 0 THEN <<st[1], st[2], TRUE>>
             ELSE releaseImporters(
                      <<[st[1] EXCEPT ![importer] = newNImports],
                        IF newNImports = 0 THEN push(st[2], importer) ELSE st[2]>>,
                      Tail(importers), FALSE)

\* one iteration of the while loop of topoSort
SortStep ==
    /\ UNCHANGED topoOthers
    /\ tpc = "sort"
    /\ q # << >>
    /\ LET cur == Head(q)
           res == releaseImporters(<<nImportsM, Tail(q)>>, importersM[cur], FALSE)
       IN  /\ sorted' = Append(sorted, cur)
           /\ nImportsM' = res[1]
           /\ q' = res[2]
           /\ tpc' = IF res[3] THEN "assert" ELSE "sort"
    /\ UNCHANGED <<timports, importersM, jpos, flatContents, flatOut>>

\* mutant: the final assertion is missing
preservesListUnchecked(s) == TRUE

\* the assertion that closes topoSort holds
preservesList(s) == Len(s) = NTopoUnits

\* the loop is over: the final assertion, and the return of the sorted list
SortReturn ==
    /\ UNCHANGED topoOthers
    /\ tpc = "sort"
    /\ q = << >>
    /\ tpc' = IF preservesList(sorted) THEN "join" ELSE "assert"
    /\ UNCHANGED <<timports, importersM, nImportsM, q, sorted, jpos, flatContents, flatOut>>

\* the text after one more unit is joined
joined(text, unit, first) ==
    (IF text # << >> THEN text \o <<NewLine>> ELSE text) \o unitText(unit, first)

\* one iteration of the loop that joins the contents in order
JoinUnit ==
    /\ UNCHANGED topoOthers
    /\ tpc = "join"
    /\ jpos < Len(sorted)
    /\ flatContents' = joined(flatContents, sorted[jpos + 1], jpos = 0)
    /\ jpos' = jpos + 1
    /\ UNCHANGED <<timports, tpc, importersM, nImportsM, q, sorted, flatOut>>

\* writeOut(flatContents, options.output)
WriteFlat ==
    /\ UNCHANGED topoOthers
    /\ tpc = "join"
    /\ jpos = Len(sorted)
    /\ flatOut' = flatContents
    /\ tpc' = "written"
    /\ UNCHANGED <<timports, importersM, nImportsM, q, sorted, jpos, flatContents>>

TopoNext ==
    \/ BuildMaps
    \/ SortStep
    \/ SortReturn
    \/ JoinUnit
    \/ WriteFlat

(***************************************************************************)
(* Properties of PART III.                                                 *)
(***************************************************************************)
RECURSIVE ImportsWithin(_, _)
\* the units reached from the set us by following at most n further imports
ImportsWithin(us, n) ==
    IF n = 0 THEN us
    ELSE ImportsWithin(us \cup UNION {timports[v] : v \in us}, n - 1)

\* some unit imports itself, directly or through other units
HasCycle == \E u \in TopoUnits : u \in ImportsWithin(timports[u], NTopoUnits)

\* the position of unit u in the sequence s
IndexIn(s, u) == CHOOSE i \in 1..Len(s) : s[i] = u

IsPermutation(s) == Len(s) = NTopoUnits /\ Range(s) = TopoUnits

RECURSIVE TextInOrder(_, _)
\* the texts of the units of s, one after the other, with a newline between two
TextInOrder(s, i) ==
    IF i > Len(s) THEN << >>
    ELSE (IF i > 1 THEN <<NewLine>> ELSE << >>) \o unitText(s[i], i = 1) \o TextInOrder(s, i + 1)

\* C9: for an acyclic import graph topoSort returns a permutation of the units in
\* which each unit comes after every unit it imports, and the flattened text is
\* the texts of the units joined in exactly that order.
C9_SortedRespectsImports ==
    ~HasCycle =>
        /\ tpc # "assert"
        /\ tpc \in {"join", "written"} =>
              /\ IsPermutation(sorted)
              /\ \A u \in TopoUnits, v \in TopoUnits :
                    v \in timports[u] => IndexIn(sorted, v) < IndexIn(sorted, u)
        /\ tpc = "written" =>
              /\ flatContents = TextInOrder(sorted, 1)
              /\ flatOut = flatContents

\* C9 witness: the flat text is written for a graph in which the first unit
\* imports the last and a unit has two imports.
C9_Witness ==
    /\ tpc = "written"
    /\ NTopoUnits \in timports[1]
    /\ \E u \in TopoUnits : Cardinality(timports[u]) >= 2
    /\ flatOut # << >>

\* C10: with a cycle in the import graph (a unit importing itself included)
\* topoSort ends by the failure of its final assertion, with fewer units sorted
\* than given. The loop ends: each iteration sorts a unit that was not sorted
\* before, so it runs at most once per unit. When the queue is empty fewer
\* units than given are sorted, so the assertion fails; the list is never
\* returned and nothing is joined or written.
C10_CycleFails ==
    HasCycle =>
        /\ tpc \in {"build", "sort", "assert"}
        /\ flatContents = << >>
        /\ flatOut = << >>
        /\ Cardinality(Range(sorted)) = Len(sorted)
        /\ Cardinality(Range(q)) = Len(q)
        /\ Range(q) \cap Range(sorted) = {}
        /\ (tpc = "sort" /\ q = << >>) => Len(sorted) < NTopoUnits
        /\ tpc = "assert" => (q = << >> /\ Len(sorted) < NTopoUnits)

\* C10 witness: the assertion has failed for a graph with a self-import, after
\* a unit outside the cycle was sorted.
C10_Witness ==
    /\ tpc = "assert"
    /\ \E u \in TopoUnits : u \in timports[u]
    /\ Len(sorted) >= 1

\* the position in the list s of the last import of u to be emitted, 0 for a
\* unit that imports nothing
ReadyAt(u, s) ==
    IF timports[u] = {} THEN 0
    ELSE CHOOSE i \in 1..Len(s) : s[i] \in timports[u] /\ \A j \in (i + 1)..Len(s) : s[j] \notin timports[u]

\* the units not in the list s whose imports are all in it
ReadyAfter(s) == {u \in TopoUnits \ Range(s) : timports[u] \subseteq Range(s)}

RECURSIVE StableOrder(_)
\* the order fixed by the input alone: the next unit is, of the units that are
\* ready, the one that became ready first, and of those that became ready
\* together the first in input order
StableOrder(s) ==
    IF ReadyAfter(s) = {} THEN s
    ELSE LET first == CHOOSE u \in ReadyAfter(s) :
                         \A v \in ReadyAfter(s) :
                            \/ ReadyAt(u, s) < ReadyAt(v, s)
                            \/ (ReadyAt(u, s) = ReadyAt(v, s) /\ u <= v)
         IN  StableOrder(Append(s, first))

\* s is the start of the list t
IsPrefix(s, t) == Len(s) <= Len(t) /\ \A i \in 1..Len(s) : s[i] = t[i]

\* C25: topoSort is deterministic and stable. The units that import nothing
\* come first, in input order; a unit that becomes ready is emitted in the
\* order in which it became ready (units that become ready together: in input
\* order). The list is a function of the input alone, so two runs on the same
\* input return the same order.
C25_StableOrder ==
    /\ IsPrefix(sorted, StableOrder(<< >>))
    /\ tpc \in {"join", "written"} =>
          /\ sorted = StableOrder(<< >>)
          /\ LET free == SortedSeq({u \in TopoUnits : timports[u] = {}})
             IN  IsPrefix(free, sorted)
          /\ \A i \in 1..Len(sorted), j \in 1..Len(sorted) :
                i < j =>
                   \/ ReadyAt(sorted[i], sorted) < ReadyAt(sorted[j], sorted)
                   \/ /\ ReadyAt(sorted[i], sorted) = ReadyAt(sorted[j], sorted)
                      /\ sorted[i] < sorted[j]

\* two units become ready together, and a unit that imports nothing comes
\* after one that has an import in the input
C25_Witness ==
    /\ tpc = "written"
    /\ \E u \in TopoUnits, v \in TopoUnits :
          u # v /\ timports[u] # {} /\ ReadyAt(u, sorted) = ReadyAt(v, sorted)
    /\ Len(sorted) = NTopoUnits

(***************************************************************************)
(* PART IV: the command line driver. A session is two runs of the tool     *)
(* over the same target files and the same file system.                    *)
(***************************************************************************)

Files == 1..NFiles

\* the extensions a target file name may have
SourceExts == {".sol", ".txt"}

\* the compiler versions a compilation may report
Versions == {"0.6.12", "0.7.6"}

\* a path is the sequence of the parts of its name
unitPath(s) == <<"unit" \o ToString(s), dext[s]>>

\* targetName + ".original"
originalName(p) == Append(p, ".original")

\* targetName + ".instrumented"
instrumentedName(p) == Append(p, ".instrumented")

\* the file name "--": standard output
Dash == <<"--">>

\* makeUtilsUnit: the path of the utilities unit
utilsPath(utilsOutputDir) ==
    IF utilsOutputDir = Dash THEN <<"__scribble_ReentrancyUtils", ".sol">>
    ELSE utilsOutputDir \o <<"/", "__scribble_ReentrancyUtils", ".sol">>

\* the directory of the first target
TargetDir == <<"contracts">>

\* options.output when it names a file
OutputFile == <<"out", ".json">>

\* options["instrumentation-metadata-file"]
MetadataFile == <<"metadata", ".json">>

\* the bytes a source file has before the session
B0(s) == <<"B0", ToString(s)>>

\* print: the text of a unit after instrumentation
instrumentedText(text) == <<"instrumented">> \o text

UtilsText == <<"utils">>

FlatText == <<"flat">>

JsonText == <<"json">>

MetadataText == <<"metadata">>

\* the option sets of a run; an option the run never reads has its default
RunOptions ==
    [disarm : {TRUE}, arm : BOOLEAN, keep : BOOLEAN, outputMode : {"files"},
     output : {Dash}, metadata : BOOLEAN, utilsOutputDir : {Dash, TargetDir}]
    \cup
    [disarm : {TRUE}, arm : {FALSE}, keep : BOOLEAN, outputMode : {"flat", "json"},
     output : {OutputFile}, metadata : {TRUE}, utilsOutputDir : {TargetDir}]
    \cup
    [disarm : {FALSE}, arm : BOOLEAN, keep : {FALSE}, outputMode : {"files"},
     output : {Dash}, metadata : BOOLEAN, utilsOutputDir : {Dash, TargetDir}]
    \cup
    [disarm : {FALSE}, arm : BOOLEAN, keep : {FALSE}, outputMode : {"flat", "json"},
     output : {Dash, OutputFile}, metadata : BOOLEAN, utilsOutputDir : {TargetDir}]
    \cup
    [disarm : {FALSE}, arm : {FALSE}, keep : {FALSE}, outputMode : {"bogus"},
     output : {Dash}, metadata : {FALSE}, utilsOutputDir : {TargetDir}]

NoOptions == [disarm |-> FALSE, arm |-> FALSE, keep |-> FALSE, outputMode |-> "files",
              output |-> Dash, metadata |-> FALSE, utilsOutputDir |-> TargetDir]

\* fse.writeFileSync(p, c)
fsWrite(f, p, c) == [x \in DOMAIN f \cup {p} |-> IF x = p THEN c ELSE f[x]]

\* fse.removeSync(p)
fsRemove(f, p) == [x \in DOMAIN f \ {p} |-> f[x]]

\* mutant: an existing .original file is left as it is
fsCopyKeepExisting(f, from, to) ==
    IF to \in DOMAIN f /\ to[Len(to)] = ".original" THEN f ELSE fsWrite(f, to, f[from])

\* fse.copyFileSync(from, to)
fsCopy(f, from, to) == fsWrite(f, to, f[from])

\* fse.moveSync(from, to, { overwrite: true }), for from # to
fsMove(f, from, to) == fsRemove(fsWrite(f, to, f[from]), from)

\* originalFileName.replace(".sol.original", ".sol"): the first occurrence is replaced
restoredName(p) ==
    LET hits == {i \in 1..(Len(p) - 1) : p[i] = ".sol" /\ p[i + 1] = ".original"}
    IN  IF hits = {} THEN p
        ELSE SubSeq(p, 1, Min(hits)) \o SubSeq(p, Min(hits) + 2, Len(p))

RECURSIVE distinctInOrder(_)
\* [...new Set([...values])]: the distinct values in order of first appearance
distinctInOrder(s) ==
    IF s = << >> THEN << >>
    ELSE LET r == distinctInOrder(SubSeq(s, 1, Len(s) - 1))
             x == s[Len(s)]
         IN  IF x \in Range(r) THEN r ELSE Append(r, x)

\* mutant: any number of versions is accepted
ambiguousNever(versions) == FALSE

\* pickVersion: versions.length !== 1
ambiguous(versions) == Len(versions) # 1

\* the message of pickVersion
versionMessage(versions) == <<"Multiple compiler versions detected", versions>>

\* mutant: a --disarm run goes on to write the metadata file
PhasesDisarmEmits(o) ==
    <<"options", "compile">> \o
    (IF o.disarm
     THEN <<"disarmMove">> \o (IF o.keep THEN << >> ELSE <<"disarmRemove">>) \o
          (IF o.metadata THEN <<"metadata">> ELSE << >>)
     ELSE <<"extract", "pickVersion", "instrument">> \o
          (CASE o.outputMode = "flat" -> <<"emitFlat">>
             [] o.outputMode = "json" -> <<"recompile", "emitJson">>
             [] OTHER -> <<"writeInstrumented", "writeUtils">>
                         \o (IF o.arm THEN <<"arm">> ELSE << >>)) \o
          (IF o.metadata THEN <<"metadata">> ELSE << >>))

\* mutant: the compiler version is picked after the files are written
PhasesPickVersionLate(o) ==
    <<"options", "compile">> \o
    (IF o.disarm
     THEN <<"disarmMove">> \o (IF o.keep THEN << >> ELSE <<"disarmRemove">>)
     ELSE <<"extract", "instrument">> \o
          (CASE o.outputMode = "flat" -> <<"emitFlat", "pickVersion">>
             [] o.outputMode = "json" -> <<"recompile", "emitJson", "pickVersion">>
             [] OTHER -> <<"writeInstrumented", "writeUtils", "pickVersion">>
                         \o (IF o.arm THEN <<"arm">> ELSE << >>)) \o
          (IF o.metadata THEN <<"metadata">> ELSE << >>))

\* mutant: the originals are swapped before the utilities file is written
PhasesArmEarly(o) ==
    <<"options", "compile">> \o
    (IF o.disarm
     THEN <<"disarmMove">> \o (IF o.keep THEN << >> ELSE <<"disarmRemove">>)
     ELSE <<"extract", "pickVersion", "instrument">> \o
          (CASE o.outputMode = "flat" -> <<"emitFlat">>
             [] o.outputMode = "json" -> <<"recompile", "emitJson">>
             [] OTHER -> <<"writeInstrumented">>
                         \o (IF o.arm THEN <<"arm">> ELSE << >>) \o <<"writeUtils">>) \o
          (IF o.metadata THEN <<"metadata">> ELSE << >>))

\* mutant: --keep-instrumented is not looked at
PhasesRemoveAlways(o) ==
    <<"options", "compile">> \o
    (IF o.disarm
     THEN <<"disarmMove", "disarmRemove">>
     ELSE <<"extract", "pickVersion", "instrument">> \o
          (CASE o.outputMode = "flat" -> <<"emitFlat">>
             [] o.outputMode = "json" -> <<"recompile", "emitJson">>
             [] OTHER -> <<"writeInstrumented", "writeUtils">>
                         \o (IF o.arm THEN <<"arm">> ELSE << >>)) \o
          (IF o.metadata THEN <<"metadata">> ELSE << >>))

\* the phases of a run with options o, in the order the main program runs them
Phases(o) ==
    <<"options", "compile">> \o
    (IF o.disarm
     THEN <<"disarmMove">> \o (IF o.keep THEN << >> ELSE <<"disarmRemove">>)
     ELSE <<"extract", "pickVersion", "instrument">> \o
          (CASE o.outputMode = "flat" -> <<"emitFlat">>
             [] o.outputMode = "json" -> <<"recompile", "emitJson">>
             [] OTHER -> <<"writeInstrumented", "writeUtils">>
                         \o (IF o.arm THEN <<"arm">> ELSE << >>)) \o
          (IF o.metadata THEN <<"metadata">> ELSE << >>))

\* the phase that follows phase p, "done" after the last
phaseAfter(p, o) ==
    LET s == Phases(o)
        i == CHOOSE j \in 1..Len(s) : s[j] = p
    IN  IF i = Len(s) THEN "done" ELSE s[i + 1]

\* mutant: every unit is swapped in place
armedUnitsAll(units) == SortedSeq(Files)

\* the units --arm swaps in place: the changed units
armedUnits(units) == units

\* --disarm: utilsOutputDir !== "--"
collectsHelper(utilsOutputDir) == utilsOutputDir # Dash

DriverInit ==
    /\ dext \in [Files -> SourceExts]
    /\ fs = [p \in {unitPath(s) : s \in Files} |->
                B0(CHOOSE s \in Files : unitPath(s) = p)]
    /\ fsBefore = fs
    /\ runs = << >>
    /\ options = NoOptions
    /\ dpc = "start"
    /\ exit = "running"
    /\ stderr = << >>
    /\ compilerVersionUsedMap = << >>
    /\ compilerVersionUsed = ""
    /\ originalFiles = << >>
    /\ instrumentationFiles = << >>
    /\ changedUnits = << >>
    /\ wpos = 0
    /\ writes = << >>

DriverIdle ==
    /\ dext = << >>
    /\ fs = << >>
    /\ fsBefore = << >>
    /\ runs = << >>
    /\ options = NoOptions
    /\ dpc = "idle"
    /\ exit = "running"
    /\ stderr = << >>
    /\ compilerVersionUsedMap = << >>
    /\ compilerVersionUsed = ""
    /\ originalFiles = << >>
    /\ instrumentationFiles = << >>
    /\ changedUnits = << >>
    /\ wpos = 0
    /\ writes = << >>

\* the run goes on with the phase after the current one, or ends with exit code 0
Proceed ==
    LET next == phaseAfter(dpc, options)
    IN  /\ dpc' = IF next = "done" THEN "exited" ELSE next
        /\ exit' = IF next = "done" THEN "ok" ELSE exit
        /\ wpos' = 0
        /\ stderr' = stderr

\* the run ends: error(msg) and process.exit(1), or an uncaught exception
Die(code, msg) ==
    /\ dpc' = "exited"
    /\ exit' = code
    /\ stderr' = msg
    /\ wpos' = wpos

\* the options the next run may have. The first run has any options; no run
\* follows a --disarm run; the run that follows another run is a --disarm run
\* or, after a first run in files mode with --arm that ended with code 0, a run
\* with the same options again
nextOptions(first) ==
    IF first THEN RunOptions
    ELSE IF options.disarm THEN {}
    ELSE {o \in RunOptions : o.disarm}
            \cup (IF runs = << >> /\ options.arm /\ options.outputMode = "files"
                      /\ ~options.metadata /\ exit = "ok"
                   THEN {options} ELSE {})

\* a run of the tool starts on the files the run before it left
StartRun ==
    /\ UNCHANGED driverOthers
    /\ dpc \in {"start", "exited"}
    /\ \E o \in nextOptions(dpc = "start") : options' = o
    /\ runs' = IF dpc = "start" THEN runs
               ELSE Append(runs, [disarm |-> options.disarm, arm |-> options.arm,
                                  outputMode |-> options.outputMode, exit |-> exit])
    /\ fsBefore' = fs
    /\ dpc' = "options"
    /\ exit' = "running"
    /\ stderr' = << >>
    /\ compilerVersionUsedMap' = << >>
    /\ compilerVersionUsed' = ""
    /\ originalFiles' = << >>
    /\ instrumentationFiles' = << >>
    /\ changedUnits' = << >>
    /\ wpos' = 0
    /\ writes' = << >>
    /\ UNCHANGED <<dext, fs>>

\* oneOf(options["output-mode"], ["flat", "files", "json"], msg)
CheckOptions ==
    /\ UNCHANGED driverOthers
    /\ dpc = "options"
    /\ IF options.outputMode \notin {"flat", "files", "json"}
       THEN Die("error", <<"--output-mode must be either 'flat', 'files' or 'json">>)
       ELSE Proceed
    /\ UNCHANGED <<dext, fs, fsBefore, runs, options, compilerVersionUsedMap,
                   compilerVersionUsed, originalFiles, instrumentationFiles,
                   changedUnits, writes>>

\* what compiling a target gives: a failure, no version ("auto" stays), or the
\* version used; a --disarm run looks at the files of the result only
compileOutcomes(disarm) ==
    IF disarm THEN {"fail", "ok"} ELSE {"fail", "auto"} \cup Versions

\* the paths of the sequence ps that exist and are not in the sequence have
appendExisting(have, ps) ==
    have \o SelectSeq(ps, LAMBDA p : p \in DOMAIN fs /\ p \notin Range(have))

\* one iteration of 'for (const target of targets)': the target is compiled
CompileTarget ==
    /\ UNCHANGED driverOthers
    /\ dpc = "compile"
    /\ wpos < NFiles
    /\ LET targetName == unitPath(wpos + 1)
       IN  \E outcome \in compileOutcomes(options.disarm) :
             IF outcome = "fail"
             THEN /\ Die("error", <<"Compile errors encountered">>)
                  /\ UNCHANGED <<compilerVersionUsedMap, originalFiles, instrumentationFiles>>
             ELSE IF options.disarm
             THEN /\ originalFiles' =
                         appendExisting(originalFiles, <<originalName(targetName)>>)
                  /\ instrumentationFiles' =
                         appendExisting(instrumentationFiles,
                             <<instrumentedName(targetName)>> \o
                             (IF collectsHelper(options.utilsOutputDir)
                              THEN <<utilsPath(options.utilsOutputDir)>> ELSE << >>))
                  /\ wpos' = wpos + 1
                  /\ UNCHANGED <<dpc, exit, stderr, compilerVersionUsedMap>>
             ELSE IF outcome = "auto"
             THEN /\ Die("error", <<"When passing in JSON you must specify an explicit compiler version">>)
                  /\ UNCHANGED <<compilerVersionUsedMap, originalFiles, instrumentationFiles>>
             ELSE /\ compilerVersionUsedMap' = Append(compilerVersionUsedMap, outcome)
                  /\ wpos' = wpos + 1
                  /\ UNCHANGED <<dpc, exit, stderr, originalFiles, instrumentationFiles>>
    /\ UNCHANGED <<dext, fs, fsBefore, runs, options, compilerVersionUsed,
                   changedUnits, writes>>

\* the loop over the targets is over
CompileDone ==
    /\ UNCHANGED driverOthers
    /\ dpc = "compile"
    /\ wpos = NFiles
    /\ Proceed
    /\ UNCHANGED <<dext, fs, fsBefore, runs, options, compilerVersionUsedMap,
                   compilerVersionUsed, originalFiles, instrumentationFiles,
                   changedUnits, writes>>

\* --disarm: move(originalFileName, originalFileName.replace(".sol.original", ".sol"));
\* fse.moveSync throws when source and destination are the same file
DisarmMove ==
    /\ UNCHANGED driverOthers
    /\ dpc = "disarmMove"
    /\ wpos < Len(originalFiles)
    /\ LET from == originalFiles[wpos + 1]
           to == restoredName(from)
       IN  IF from = to
           THEN /\ Die("crash", <<"Source and destination must not be the same.">>)
                /\ UNCHANGED <<fs, writes>>
           ELSE /\ fs' = fsMove(fs, from, to)
                /\ writes' = Append(writes, [op |-> "move", from |-> from, to |-> to])
                /\ wpos' = wpos + 1
                /\ UNCHANGED <<dpc, exit, stderr>>
    /\ UNCHANGED <<dext, fsBefore, runs, options, compilerVersionUsedMap,
                   compilerVersionUsed, originalFiles, instrumentationFiles, changedUnits>>

\* --disarm: all .original files are moved back
DisarmMoved ==
    /\ UNCHANGED driverOthers
    /\ dpc = "disarmMove"
    /\ wpos = Len(originalFiles)
    /\ Proceed
    /\ UNCHANGED <<dext, fs, fsBefore, runs, options, compilerVersionUsedMap,
                   compilerVersionUsed, originalFiles, instrumentationFiles,
                   changedUnits, writes>>

\* --disarm without --keep-instrumented: remove(instrFileName)
DisarmRemove ==
    /\ UNCHANGED driverOthers
    /\ dpc = "disarmRemove"
    /\ wpos < Len(instrumentationFiles)
    /\ LET instrFileName == instrumentationFiles[wpos + 1]
       IN  /\ fs' = fsRemove(fs, instrFileName)
           /\ writes' = Append(writes, [op |-> "remove", from |-> instrFileName,
                                        to |-> instrFileName])
    /\ wpos' = wpos + 1
    /\ UNCHANGED <<dext, fsBefore, runs, options, dpc, exit, stderr, compilerVersionUsedMap,
                   compilerVersionUsed, originalFiles, instrumentationFiles, changedUnits>>

\* --disarm: all instrumentation files are removed
DisarmRemoved ==
    /\ UNCHANGED driverOthers
    /\ dpc = "disarmRemove"
    /\ wpos = Len(instrumentationFiles)
    /\ Proceed
    /\ UNCHANGED <<dext, fs, fsBefore, runs, options, compilerVersionUsedMap,
                   compilerVersionUsed, originalFiles, instrumentationFiles,
                   changedUnits, writes>>

\* computeContractInvs: the contract annotations are extracted, or a syntax or
\* target-mismatch error ends the run
ExtractContractAnnotations ==
    /\ UNCHANGED driverOthers
    /\ dpc = "extract"
    /\ \E outcome \in {"ok", "SyntaxError", "UnsupportedByTargetError"} :
          IF outcome = "ok" THEN Proceed ELSE Die("error", <<outcome>>)
    /\ UNCHANGED <<dext, fs, fsBefore, runs, options, compilerVersionUsedMap,
                   compilerVersionUsed, originalFiles, instrumentationFiles,
                   changedUnits, writes>>

\* const compilerVersionUsed = pickVersion(compilerVersionUsedMap)
PickVersion ==
    /\ UNCHANGED driverOthers
    /\ dpc = "pickVersion"
    /\ LET versions == distinctInOrder(compilerVersionUsedMap)
       IN  IF ambiguous(versions)
           THEN /\ Die("error", versionMessage(versions))
                /\ UNCHANGED compilerVersionUsed
           ELSE /\ compilerVersionUsed' = versions[1]
                /\ Proceed
    /\ UNCHANGED <<dext, fs, fsBefore, runs, options, compilerVersionUsedMap,
                   originalFiles, instrumentationFiles, changedUnits, writes>>

\* instrumentFiles(instrCtx, contractsInvMap, contractsNeedingInstr): the changed
\* units, or an annotation, type or semantic error ends the run
InstrumentFiles ==
    /\ UNCHANGED driverOthers
    /\ dpc = "instrument"
    /\ \/ \E outcome \in {"SyntaxError", "UnsupportedByTargetError", "TypeError", "SemError"} :
             /\ Die("error", <<outcome>>)
             /\ UNCHANGED changedUnits
       \/ \E ch \in SUBSET Files :
             /\ changedUnits' = SortedSeq(ch)
             /\ Proceed
    /\ UNCHANGED <<dext, fs, fsBefore, runs, options, compilerVersionUsedMap,
                   compilerVersionUsed, originalFiles, instrumentationFiles, writes>>

\* writeOut(contents, fileName): to standard output for "--", else to the file
writeOut(contents, fileName) ==
    /\ fs' = IF fileName = Dash THEN fs ELSE fsWrite(fs, fileName, contents)
    /\ writes' = Append(writes, [op |-> "write", from |-> contents, to |-> fileName])

\* flat mode: writeOut(flatContents, options.output)
EmitFlat ==
    /\ UNCHANGED driverOthers
    /\ dpc = "emitFlat"
    /\ writeOut(FlatText, options.output)
    /\ Proceed
    /\ UNCHANGED <<dext, fsBefore, runs, options, compilerVersionUsedMap,
                   compilerVersionUsed, originalFiles, instrumentationFiles, changedUnits>>

\* json mode: the flattened text is compiled again; a failure ends the run
Recompile ==
    /\ UNCHANGED driverOthers
    /\ dpc = "recompile"
    /\ \E ok \in BOOLEAN :
          IF ok THEN Proceed
          ELSE Die("error", <<"Compile errors encountered for flattend instrumetned file">>)
    /\ UNCHANGED <<dext, fs, fsBefore, runs, options, compilerVersionUsedMap,
                   compilerVersionUsed, originalFiles, instrumentationFiles,
                   changedUnits, writes>>

\* json mode: writeOut(resultJSON, options.output)
EmitJson ==
    /\ UNCHANGED driverOthers
    /\ dpc = "emitJson"
    /\ writeOut(JsonText, options.output)
    /\ Proceed
    /\ UNCHANGED <<dext, fsBefore, runs, options, compilerVersionUsedMap,
                   compilerVersionUsed, originalFiles, instrumentationFiles, changedUnits>>

\* files mode: the .instrumented file of one changed unit is written; the
\* write may throw
WriteInstrumented ==
    /\ UNCHANGED driverOthers
    /\ dpc = "writeInstrumented"
    /\ wpos < Len(changedUnits)
    /\ LET unit == unitPath(changedUnits[wpos + 1])
           instrumentedFileName == instrumentedName(unit)
       IN  \E ok \in BOOLEAN :
             IF ok
             THEN /\ fs' = fsWrite(fs, instrumentedFileName, instrumentedText(fs[unit]))
                  /\ writes' = Append(writes, [op |-> "write", from |-> unit,
                                               to |-> instrumentedFileName])
                  /\ wpos' = wpos + 1
                  /\ UNCHANGED <<dpc, exit, stderr>>
             ELSE /\ Die("crash", <<"writeFileSync">>)
                  /\ UNCHANGED <<fs, writes>>
    /\ UNCHANGED <<dext, fsBefore, runs, options, compilerVersionUsedMap,
                   compilerVersionUsed, originalFiles, instrumentationFiles, changedUnits>>

\* files mode: all .instrumented files are written
InstrumentedWritten ==
    /\ UNCHANGED driverOthers
    /\ dpc = "writeInstrumented"
    /\ wpos = Len(changedUnits)
    /\ Proceed
    /\ UNCHANGED <<dext, fs, fsBefore, runs, options, compilerVersionUsedMap,
                   compilerVersionUsed, originalFiles, instrumentationFiles,
                   changedUnits, writes>>

\* files mode: the utilities unit is written; the write may throw
WriteUtils ==
    /\ UNCHANGED driverOthers
    /\ dpc = "writeUtils"
    /\ \E ok \in BOOLEAN :
          IF ok
          THEN /\ fs' = fsWrite(fs, utilsPath(options.utilsOutputDir), UtilsText)
               /\ writes' = Append(writes, [op |-> "write", from |-> UtilsText,
                                            to |-> utilsPath(options.utilsOutputDir)])
               /\ Proceed
          ELSE /\ Die("crash", <<"writeFileSync">>)
               /\ UNCHANGED <<fs, writes>>
    /\ UNCHANGED <<dext, fsBefore, runs, options, compilerVersionUsedMap,
                   compilerVersionUsed, originalFiles, instrumentationFiles, changedUnits>>

\* --arm: one iteration of the loop that puts the instrumented files in place
ArmUnit ==
    /\ UNCHANGED driverOthers
    /\ dpc = "arm"
    /\ wpos < Len(armedUnits(changedUnits))
    /\ LET unit == unitPath(armedUnits(changedUnits)[wpos + 1])
           instrumentedFileName == instrumentedName(unit)
           originalFileName == originalName(unit)
       IN  /\ fs' = IF instrumentedFileName \in DOMAIN fs
                    THEN fsCopy(fsCopy(fs, unit, originalFileName), instrumentedFileName, unit)
                    ELSE fsCopy(fs, unit, originalFileName)
           /\ writes' = writes \o
                  <<[op |-> "copy", from |-> unit, to |-> originalFileName],
                    [op |-> "copy", from |-> instrumentedFileName, to |-> unit]>>
    /\ wpos' = wpos + 1
    /\ UNCHANGED <<dext, fsBefore, runs, options, dpc, exit, stderr, compilerVersionUsedMap,
                   compilerVersionUsed, originalFiles, instrumentationFiles, changedUnits>>

\* --arm: every changed unit is swapped
Armed ==
    /\ UNCHANGED driverOthers
    /\ dpc = "arm"
    /\ wpos = Len(armedUnits(changedUnits))
    /\ Proceed
    /\ UNCHANGED <<dext, fs, fsBefore, runs, options, compilerVersionUsedMap,
                   compilerVersionUsed, originalFiles, instrumentationFiles,
                   changedUnits, writes>>

\* writeOut(JSON.stringify(metadata), options["instrumentation-metadata-file"])
WriteMetadata ==
    /\ UNCHANGED driverOthers
    /\ dpc = "metadata"
    /\ writeOut(MetadataText, MetadataFile)
    /\ Proceed
    /\ UNCHANGED <<dext, fsBefore, runs, options, compilerVersionUsedMap,
                   compilerVersionUsed, originalFiles, instrumentationFiles, changedUnits>>

DriverNext ==
    \/ StartRun
    \/ CheckOptions
    \/ CompileTarget
    \/ CompileDone
    \/ DisarmMove
    \/ DisarmMoved
    \/ DisarmRemove
    \/ DisarmRemoved
    \/ ExtractContractAnnotations
    \/ PickVersion
    \/ InstrumentFiles
    \/ EmitFlat
    \/ Recompile
    \/ EmitJson
    \/ WriteInstrumented
    \/ InstrumentedWritten
    \/ WriteUtils
    \/ ArmUnit
    \/ Armed
    \/ WriteMetadata

(***************************************************************************)
(* Properties of PART IV.                                                  *)
(***************************************************************************)
\* the run is not a --disarm run and pickVersion has returned
VersionPicked == compilerVersionUsed # ""

\* the run ended in pickVersion
AmbiguousExit ==
    /\ dpc = "exited"
    /\ Len(stderr) = Len(versionMessage(<< >>))
    /\ stderr = versionMessage(distinctInOrder(compilerVersionUsedMap))

\* nothing was instrumented and nothing was written in the current run
NothingDone == writes = << >> /\ changedUnits = << >> /\ fs = fsBefore

\* C11: pickVersion returns the single version when all targets were compiled
\* with the same version; with two or more versions the run exits with code 1
\* and a message that lists the versions, before anything is instrumented or
\* written.
C11_PickVersion ==
    /\ VersionPicked =>
          /\ Len(compilerVersionUsedMap) = NFiles
          /\ \A i \in 1..NFiles : compilerVersionUsedMap[i] = compilerVersionUsed
    /\ AmbiguousExit =>
          /\ exit = "error"
          /\ Cardinality(Range(compilerVersionUsedMap)) >= 2
          /\ Range(stderr[Len(stderr)]) = Range(compilerVersionUsedMap)
          /\ NothingDone
    /\ (~options.disarm /\ Len(compilerVersionUsedMap) = NFiles
            /\ Cardinality(Range(compilerVersionUsedMap)) # 1) =>
          /\ dpc \in {"compile", "extract", "pickVersion", "exited"}
          /\ NothingDone
          /\ dpc = "exited" =>
                (exit = "error" /\ (AmbiguousExit \/ stderr \in {<<"SyntaxError">>, <<"UnsupportedByTargetError">>}))

\* C11 witness: the targets were compiled with two versions and the run has
\* exited in pickVersion.
C11_Witness ==
    /\ AmbiguousExit
    /\ Cardinality(Range(compilerVersionUsedMap)) = Cardinality(Versions)

\* C12: a run that ends with a user-class error has written no .instrumented
\* file, no utilities file, no flat or json output and no metadata file.
C12_NoOutputBeforeUserError ==
    exit = "error" => (writes = << >> /\ fs = fsBefore)

\* C12 witness: the run ended because the flattened output did not compile.
C12_Witness ==
    /\ exit = "error"
    /\ options.outputMode = "json"
    /\ stderr = <<"Compile errors encountered for flattend instrumetned file">>
    /\ changedUnits # << >>

\* the run before the current one was a files-mode --arm run that ended with code 0
ArmedBefore ==
    /\ runs # << >>
    /\ runs[Len(runs)].arm
    /\ ~runs[Len(runs)].disarm
    /\ runs[Len(runs)].outputMode = "files"
    /\ runs[Len(runs)].exit = "ok"

\* C13: after a files-mode --arm run followed by a --disarm run on the same
\* targets every original source file has the bytes it had before the --arm run.
C13_ArmDisarmRestores ==
    (ArmedBefore /\ options.disarm /\ dpc = "exited" /\ exit # "error") =>
        \A s \in Files : fs[unitPath(s)] = B0(s)

\* the .original file of unit s was created or rewritten by the current run
OriginalCreated(s) ==
    /\ originalName(unitPath(s)) \in DOMAIN fs
    /\ \/ originalName(unitPath(s)) \notin DOMAIN fsBefore
       \/ fs[originalName(unitPath(s))] # fsBefore[originalName(unitPath(s))]

\* the source file of unit s was overwritten by the current run
SourceOverwritten(s) == fs[unitPath(s)] # fsBefore[unitPath(s)]

\* --arm copies happen only in a files-mode --arm run and only for changed units
ArmFrame ==
    \A s \in Files :
        (OriginalCreated(s) \/ SourceOverwritten(s)) =>
            (options.outputMode = "files" /\ options.arm /\ s \in Range(changedUnits))

\* after a files-mode --arm run the .original file holds the old bytes and the
\* source file holds the instrumented text
ArmResult ==
    (dpc = "exited" /\ exit = "ok" /\ options.outputMode = "files" /\ options.arm) =>
        \A s \in Range(changedUnits) :
            /\ originalName(unitPath(s)) \in DOMAIN fs
            /\ fs[originalName(unitPath(s))] = fsBefore[unitPath(s)]
            /\ fs[unitPath(s)] = instrumentedText(fsBefore[unitPath(s)])

\* without --arm no source file is modified and no .original file is created
NoArmNoChange ==
    ~options.arm => \A s \in Files : ~OriginalCreated(s) /\ ~SourceOverwritten(s)

\* C14 as stated, for every run.
C14_Original ==
    /\ ArmFrame
    /\ ~options.disarm => ArmResult
    /\ NoArmNoChange

\* C14 amended: in a run without --disarm a .original file is created and a
\* source file is overwritten only in files mode with --arm and only for the
\* changed units, with the old bytes in .original and the instrumented text in
\* the source file; a --disarm run creates no .original file and changes a
\* source file only by moving its .original file over it.
C14_ArmOnlyTouchesChanged ==
    /\ ~options.disarm => (ArmFrame /\ ArmResult /\ NoArmNoChange)
    /\ options.disarm =>
          \A s \in Files :
              /\ ~OriginalCreated(s)
              /\ SourceOverwritten(s) =>
                    (/\ originalName(unitPath(s)) \in DOMAIN fsBefore
                     /\ fs[unitPath(s)] = fsBefore[originalName(unitPath(s))])

\* C14 witness: a files-mode --arm run has ended that changed one unit and left
\* another unchanged.
C14_Witness ==
    /\ dpc = "exited"
    /\ exit = "ok"
    /\ ~options.disarm
    /\ options.arm
    /\ options.outputMode = "files"
    /\ changedUnits # << >>
    /\ Len(changedUnits) < NFiles
    /\ \E s \in Range(changedUnits) : OriginalCreated(s) /\ SourceOverwritten(s)

\* the position in the log of the write to path p, 0 if there is none
WrittenAt(p) ==
    IF \E j \in 1..Len(writes) : writes[j].op = "write" /\ writes[j].to = p
    THEN Min({j \in 1..Len(writes) : writes[j].op = "write" /\ writes[j].to = p})
    ELSE 0

\* C15: in a files-mode run every .instrumented file and the utilities file
\* are written before the first --arm copy, and no copy happens when one of
\* these writes failed.
C15_WritesBeforeArm ==
    /\ \A i \in 1..Len(writes) :
          writes[i].op = "copy" =>
              /\ \A s \in Range(changedUnits) :
                    /\ WrittenAt(instrumentedName(unitPath(s))) > 0
                    /\ WrittenAt(instrumentedName(unitPath(s))) < i
              /\ WrittenAt(utilsPath(options.utilsOutputDir)) > 0
              /\ WrittenAt(utilsPath(options.utilsOutputDir)) < i
    /\ (exit = "crash" /\ stderr = <<"writeFileSync">>) =>
          \A i \in 1..Len(writes) : writes[i].op # "copy"

\* C15 witness: an --arm run has copied the files of all its changed units,
\* more than one.
C15_Witness ==
    /\ dpc = "exited"
    /\ options.arm
    /\ Len(changedUnits) = NFiles
    /\ Cardinality({i \in 1..Len(writes) : writes[i].op = "copy"}) = NFiles + NFiles

\* the .instrumented files of the targets that existed when the run started
InstrumentedBefore ==
    {instrumentedName(unitPath(s)) : s \in Files} \cap DOMAIN fsBefore

\* the .original files of the targets are moved back over the source files
MovedBack ==
    \A s \in Files :
        originalName(unitPath(s)) \in DOMAIN fsBefore =>
            /\ originalName(unitPath(s)) \notin DOMAIN fs
            /\ fs[unitPath(s)] = fsBefore[originalName(unitPath(s))]

ArmRunEnded ==
    /\ dpc = "exited"
    /\ exit = "ok"
    /\ ~options.disarm
    /\ options.arm
    /\ options.outputMode = "files"

\* the source file of unit s held the instrumented text of an earlier --arm
\* run, and its .original file existed, when the current run started
ArmedTwice(s) ==
    /\ originalName(unitPath(s)) \in DOMAIN fsBefore
    /\ fsBefore[unitPath(s)] = instrumentedText(B0(s))

\* C27: --arm overwrites an existing .original file without a check: after a
\* second --arm run the .original file of a unit changed by both runs holds the
\* instrumented text of the first run, not the original bytes, and a later
\* --disarm run puts that instrumented text back as the source file.
C27_ArmOverwritesOriginal ==
    /\ ArmRunEnded =>
          \A s \in Range(changedUnits) :
              /\ fs[originalName(unitPath(s))] = fsBefore[unitPath(s)]
              /\ ArmedTwice(s) =>
                    /\ fs[originalName(unitPath(s))] = instrumentedText(B0(s))
                    /\ fs[originalName(unitPath(s))] # B0(s)
                    /\ \A p \in DOMAIN fs : fs[p] # B0(s)
    /\ (options.disarm /\ dpc = "exited" /\ exit = "ok" /\ Len(runs) = 2) =>
          \A s \in Files :
              (/\ originalName(unitPath(s)) \in DOMAIN fsBefore
               /\ fsBefore[originalName(unitPath(s))] = instrumentedText(B0(s))) =>
                    fs[unitPath(s)] = instrumentedText(B0(s))

\* C27 witness: a --disarm run has ended after two --arm runs and has put the
\* instrumented text of the first --arm run back as a source file.
C27_Witness ==
    /\ options.disarm
    /\ dpc = "exited"
    /\ exit = "ok"
    /\ Len(runs) = 2
    /\ runs[1].arm
    /\ runs[2].arm
    /\ \E s \in Files :
          /\ originalName(unitPath(s)) \in DOMAIN fsBefore
          /\ fsBefore[originalName(unitPath(s))] = instrumentedText(B0(s))
          /\ fs[unitPath(s)] = instrumentedText(B0(s))

\* a second --arm run has ended and has overwritten an existing .original file
C27_WitnessSecondArm ==
    /\ ArmRunEnded
    /\ Len(runs) = 1
    /\ \E s \in Range(changedUnits) :
          /\ ArmedTwice(s)
          /\ fsBefore[originalName(unitPath(s))] = B0(s)
          /\ fs[originalName(unitPath(s))] = instrumentedText(B0(s))

\* the paths a --disarm run may remove: the .instrumented files of the targets
\* and the utilities file, when they existed at the start of the run
Removable ==
    (InstrumentedBefore \cup
        (IF options.utilsOutputDir # Dash
         THEN {utilsPath(options.utilsOutputDir)} ELSE {})) \cap DOMAIN fsBefore

\* the .original files of the targets that existed at the start of the run
OriginalsBefore == {originalName(unitPath(s)) : s \in Files} \cap DOMAIN fsBefore

\* C28: a --disarm run merges, instruments and emits nothing: every file
\* operation it performs is the move of an existing .original file onto its
\* source file or, without --keep-instrumented, the removal of an existing
\* .instrumented file or of the existing utilities file; a target without a
\* .original file keeps its bytes and no metadata, flat or json output is
\* written, whatever the other options are.
C28_DisarmOnlyRestores ==
    options.disarm =>
        /\ dpc \in {"start", "options", "compile", "disarmMove", "disarmRemove", "exited"}
        /\ changedUnits = << >>
        /\ compilerVersionUsed = ""
        /\ \A i \in 1..Len(writes) :
              \/ /\ writes[i].op = "move"
                 /\ writes[i].from \in OriginalsBefore
                 /\ originalName(writes[i].to) = writes[i].from
              \/ /\ writes[i].op = "remove"
                 /\ ~options.keep
                 /\ writes[i].from \in Removable
        /\ \A s \in Files :
              originalName(unitPath(s)) \notin DOMAIN fsBefore =>
                  fs[unitPath(s)] = fsBefore[unitPath(s)]
        /\ \A p \in DOMAIN fs :
              \/ p \in DOMAIN fsBefore /\ fs[p] = fsBefore[p]
              \/ originalName(p) \in OriginalsBefore /\ fs[p] = fsBefore[originalName(p)]
        /\ \A p \in DOMAIN fsBefore \ DOMAIN fs :
              p \in OriginalsBefore \/ (~options.keep /\ p \in Removable)
        /\ MetadataFile \in DOMAIN fs => MetadataFile \in DOMAIN fsBefore
        /\ OutputFile \in DOMAIN fs => OutputFile \in DOMAIN fsBefore

\* C28 witness: a --disarm run given a metadata file and an output mode other
\* than files has ended after moving one .original file back, leaving a target
\* without a .original file alone, and removing a .instrumented file.
C28_Witness ==
    /\ options.disarm
    /\ options.metadata
    /\ options.outputMode # "files"
    /\ dpc = "exited"
    /\ exit = "ok"
    /\ \E s \in Files : originalName(unitPath(s)) \in DOMAIN fsBefore
    /\ \E s \in Files :
          /\ originalName(unitPath(s)) \notin DOMAIN fsBefore
          /\ fs[unitPath(s)] = fsBefore[unitPath(s)]
    /\ \E i \in 1..Len(writes) : writes[i].op = "remove"

(***************************************************************************)
(* PART V: generateInstrumentationMetadata (util/metadata).                *)
(***************************************************************************)

MetaUnits == 1..NMetaUnits

\* ctx.utilsUnit
UtilsUnit == 0

\* unit.absolutePath
absolutePath(u) ==
    IF u = UtilsUnit THEN "__scribble_ReentrancyUtils.sol"
    ELSE "unit" \o ToString(u) \o ".sol"

\* newSrcMap.get(node) for a node that was not printed
Undefined == << >>

\* `${a}:${b}:${c}`
ppSrc(a, b, c) == ToString(a) \o ":" \o ToString(b) \o ":" \o ToString(c)

\* Array.prototype.indexOf
indexOf(s, x) ==
    IF \E i \in 1..Len(s) : s[i] = x
    THEN Min({i \in 1..Len(s) : s[i] = x}) - 1
    ELSE 0 - 1

\* the property annotation of unit u: its record in ctx.annotations
propertyOf(u) == [contract |-> u, fn |-> 0, type |-> "invariant"]

\* property.raw.src: the documentation node that holds the annotation
rawSrc(u) == <<u * 100, 40, u - 1>>

\* property.annotationLoc: offset and length of the annotation in the file
annotationLoc(u) == <<u * 100 + 4, 20>>

\* what a run hands to generateInstrumentationMetadata
\*   units:     the units of originalUnits other than the utilities unit
\*   utilsLast: whether the utilities unit is the last of originalUnits
\*   checks:    ctx.instrumetnedCheck: unit -> number of check nodes of its property
\*   printed:   newSrcMap: the check nodes <<unit, index>> that have a span
MetaConfigs ==
    {c \in [outputMode : {"files", "flat", "json"}, arm : BOOLEAN,
            outputFile : {"--", "out.sol", "__scribble_ReentrancyUtils.sol"}, units : SUBSET MetaUnits,
            utilsLast : BOOLEAN, checks : [MetaUnits -> 0..2],
            printed : SUBSET (MetaUnits \X (1..2))] :
        /\ c.outputMode = "files" => (c.utilsLast /\ c.outputFile = "--")
        /\ \A u \in MetaUnits : u \notin c.units => c.checks[u] = 0
        /\ \A u \in c.units : c.checks[u] >= 1
        /\ \A n \in (MetaUnits \X (1..2)) \ c.printed :
              (n[1] \in c.units /\ n[2] <= c.checks[n[1]])
        /\ Cardinality((MetaUnits \X (1..2)) \ c.printed) <= 1}

NoMetaConfig ==
    [outputMode |-> "files", arm |-> FALSE, outputFile |-> "--", units |-> {},
     utilsLast |-> TRUE, checks |-> << >>, printed |-> {}]

\* originalUnits: changedUnits.concat(utilsUnit), or the sorted units
originalUnitsOf(c) ==
    IF c.utilsLast THEN SortedSeq(c.units) \o <<UtilsUnit>>
    ELSE <<UtilsUnit>> \o SortedSeq(c.units)

\* the entries of ctx.instrumetnedCheck, flattened: <<unit of the property, index>>
checkNodes(c) ==
    LET RECURSIVE from(_)
        from(us) ==
            IF us = << >> THEN << >>
            ELSE [j \in 1..c.checks[Head(us)] |-> <<Head(us), j>>] \o from(Tail(us))
    IN  from(SortedSeq(c.units))

\* newSrcMap.get(node) of the j-th check node of the property of unit u
newSrcOfCheck(c, n) == IF n \in c.printed THEN <<n[1] * 1000 + n[2] * 10, 8>> ELSE Undefined

\* newSrcMap.get(node) of the node of unit u that the walk visits
newSrcOfNode(u) == <<u * 1000, 500>>

\* node.src of that node
srcOfNode(u) == <<0, 300, u - 1>>

\* getInstrFileIdx(node, mode, instrSourceList) for a node of unit u
\* (-1: the assertion 'idx !== -1' fails)
getInstrFileIdx(u, mode, list) ==
    IF mode # "files" THEN 0 ELSE indexOf(list, absolutePath(u))

\* reNumber(src, to)
reNumber(src, to) == ppSrc(src[1], src[2], to)

\* mutant: the original side is the span of the documentation node
originalSideRaw(u) == ppSrc(rawSrc(u)[1], rawSrc(u)[2], rawSrc(u)[3])

\* `${property.annotationLoc[0]}:${property.annotationLoc[1]}:${originalFileIdx}`
originalSide(u) == ppSrc(annotationLoc(u)[1], annotationLoc(u)[2], rawSrc(u)[3])

\* mutant: every name gets the suffix
instrumentedSuffixAlways(name) == name \o ".instrumented"

\* name === "--" || name === utilsUnit.absolutePath ? name : name + ".instrumented"
instrumentedSuffix(name) ==
    IF name = "--" \/ name = absolutePath(UtilsUnit) THEN name ELSE name \o ".instrumented"

MetaInit ==
    /\ mconf \in MetaConfigs
    /\ mpc = "lists"
    /\ mpos = 0
    /\ originalSourceList = << >>
    /\ instrSourceList = << >>
    /\ src2SrcMap = << >>
    /\ otherInstrumentation = << >>

MetaIdle ==
    /\ mconf = NoMetaConfig
    /\ mpc = "idle"
    /\ mpos = 0
    /\ originalSourceList = << >>
    /\ instrSourceList = << >>
    /\ src2SrcMap = << >>
    /\ otherInstrumentation = << >>

\* generateInstrumentationMetadata up to the call of generateSrcMap2SrcMap
BuildSourceLists ==
    /\ UNCHANGED metaOthers
    /\ mpc = "lists"
    /\ originalSourceList' =
           LET us == FilterSeq(originalUnitsOf(mconf), MetaUnits)
           IN  [i \in 1..Len(us) |-> absolutePath(us[i])]
    /\ instrSourceList' =
           IF mconf.outputMode = "files"
           THEN originalSourceList' \o <<absolutePath(UtilsUnit)>>
           ELSE <<mconf.outputFile>>
    /\ mpc' = "walk"
    /\ UNCHANGED <<mconf, mpos, src2SrcMap, otherInstrumentation, propertyMap>>

\* generateSrcMap2SrcMap, first loop: one unit is walked
WalkUnit ==
    /\ UNCHANGED metaOthers
    /\ mpc = "walk"
    /\ mpos < Len(originalUnitsOf(mconf))
    /\ LET unit == originalUnitsOf(mconf)[mpos + 1]
           newSrcListIdx == indexOf(originalSourceList, absolutePath(unit))
           instrFileIdx == getInstrFileIdx(unit, mconf.outputMode, instrSourceList)
       IN  IF unit = UtilsUnit
           THEN UNCHANGED <<src2SrcMap, mpc>>
           ELSE IF instrFileIdx < 0
           THEN /\ mpc' = "assert"
                /\ UNCHANGED src2SrcMap
           ELSE /\ src2SrcMap' = Append(src2SrcMap,
                        <<ppSrc(newSrcOfNode(unit)[1], newSrcOfNode(unit)[2], instrFileIdx),
                          reNumber(srcOfNode(unit), newSrcListIdx)>>)
                /\ UNCHANGED mpc
    /\ mpos' = mpos + 1
    /\ UNCHANGED <<mconf, originalSourceList, instrSourceList, otherInstrumentation,
                   propertyMap>>

\* the first loop is over
Walked ==
    /\ UNCHANGED metaOthers
    /\ mpc = "walk"
    /\ mpos = Len(originalUnitsOf(mconf))
    /\ mpc' = "checks"
    /\ mpos' = 0
    /\ UNCHANGED <<mconf, originalSourceList, instrSourceList, src2SrcMap,
                   otherInstrumentation, propertyMap>>

\* generateSrcMap2SrcMap, second loop: one check node of one property
MapCheck ==
    /\ UNCHANGED metaOthers
    /\ mpc = "checks"
    /\ mpos < Len(checkNodes(mconf))
    /\ LET assertion == checkNodes(mconf)[mpos + 1]
           assertionSrc == newSrcOfCheck(mconf, assertion)
           instrFileIdx == getInstrFileIdx(assertion[1], mconf.outputMode, instrSourceList)
       IN  IF instrFileIdx < 0 \/ assertionSrc = Undefined
           THEN /\ mpc' = "assert"
                /\ UNCHANGED src2SrcMap
           ELSE /\ src2SrcMap' = Append(src2SrcMap,
                        <<ppSrc(assertionSrc[1], assertionSrc[2], instrFileIdx),
                          originalSide(assertion[1])>>)
                /\ UNCHANGED mpc
    /\ mpos' = mpos + 1
    /\ UNCHANGED <<mconf, originalSourceList, instrSourceList, otherInstrumentation,
                   propertyMap>>

\* generateSrcMap2SrcMap, third loop and return: the general instrumentation
\* nodes, here one node of the utilities unit
MapOther ==
    /\ UNCHANGED metaOthers
    /\ mpc = "checks"
    /\ mpos = Len(checkNodes(mconf))
    /\ LET instrFileIdx == getInstrFileIdx(UtilsUnit, mconf.outputMode, instrSourceList)
       IN  /\ otherInstrumentation' = <<ppSrc(0, 50, instrFileIdx)>>
           /\ mpc' = "propertyMap"
    /\ mpos' = 0
    /\ UNCHANGED <<mconf, originalSourceList, instrSourceList, src2SrcMap, propertyMap>>

\* const propertyMap = generatePropertyMap(ctx, newSrcMap, instrSourceList)
MetaPropertyMap ==
    /\ UNCHANGED metaOthers
    /\ mpc = "propertyMap"
    /\ propertyMap' =
           generatePropertyMap([i \in 1..Cardinality(mconf.units) |->
                                   propertyOf(SortedSeq(mconf.units)[i])])
    /\ mpc' = "suffix"
    /\ UNCHANGED <<mconf, mpos, originalSourceList, instrSourceList, src2SrcMap,
                   otherInstrumentation>>

\* the suffixes are added and the metadata is returned
SuffixAndReturn ==
    /\ UNCHANGED metaOthers
    /\ mpc = "suffix"
    /\ instrSourceList' =
           [i \in 1..Len(instrSourceList) |-> instrumentedSuffix(instrSourceList[i])]
    /\ originalSourceList' =
           IF mconf.arm
           THEN [i \in 1..Len(originalSourceList) |-> originalSourceList[i] \o ".original"]
           ELSE originalSourceList
    /\ mpc' = "done"
    /\ UNCHANGED <<mconf, mpos, src2SrcMap, otherInstrumentation, propertyMap>>

MetaNext ==
    \/ BuildSourceLists
    \/ WalkUnit
    \/ Walked
    \/ MapCheck
    \/ MapOther
    \/ MetaPropertyMap
    \/ SuffixAndReturn

\* whether the generation has returned
MetaReturned == mpc = "done"

\* the index of the file that holds the printed check nodes of unit u
InstrFileOf(u) ==
    IF mconf.outputMode = "files"
    THEN CHOOSE i \in 0..NMetaUnits : i < Len(instrSourceList)
                                       /\ instrSourceList[i + 1] = instrumentedSuffix(absolutePath(u))
    ELSE 0

\* C18: for every annotation and every check node recorded for it, the
\* returned instrToOriginalMap holds a pair whose instrumented side is the
\* printed span of the check node and whose original side is the offset and
\* length of the annotation, followed by a file index; and the generation
\* does not return when a recorded check node has no printed span: it stops
\* at the assertion, at the latest when the loop reaches that node.
C18_CheckPairs ==
    /\ MetaReturned =>
          \A n \in Range(checkNodes(mconf)) :
             /\ n \in mconf.printed
             /\ \E i \in 1..Len(src2SrcMap) :
                   /\ src2SrcMap[i][1] =
                          ppSrc(n[1] * 1000 + n[2] * 10, 8, InstrFileOf(n[1]))
                   /\ \E f \in 0..NMetaUnits :
                          src2SrcMap[i][2] =
                              ppSrc(annotationLoc(n[1])[1], annotationLoc(n[1])[2], f)
    /\ (mpc = "checks" /\ mpos > 0) =>
          \A i \in 1..mpos : checkNodes(mconf)[i] \in mconf.printed
    /\ (Range(checkNodes(mconf)) \ mconf.printed # {}) =>
          mpc \in {"lists", "walk", "checks", "assert"}

C18_Witness ==
    /\ MetaReturned
    /\ mconf.outputMode = "files"
    /\ Cardinality(mconf.units) >= 2
    /\ \E u \in mconf.units : mconf.checks[u] = 2
    /\ Len(src2SrcMap) >= 5

\* a run that stopped at the assertion because a check node has no span
C18_WitnessAssert ==
    /\ mpc = "assert"
    /\ Range(checkNodes(mconf)) \ mconf.printed # {}
    /\ src2SrcMap # << >>

\* the paths of the units of originalUnits other than the utilities unit
NonUtilityPaths ==
    LET us == FilterSeq(originalUnitsOf(mconf), MetaUnits)
    IN  [i \in 1..Len(us) |-> "unit" \o ToString(us[i]) \o ".sol"]

\* originalSourceList: the paths of the non-utility units, each with the
\* suffix .original iff --arm was requested
OriginalListOk ==
    /\ Len(originalSourceList) = Len(NonUtilityPaths)
    /\ \A i \in 1..Len(NonUtilityPaths) :
          originalSourceList[i] =
              IF mconf.arm THEN NonUtilityPaths[i] \o ".original" ELSE NonUtilityPaths[i]

\* instrSourceList in files mode: the same paths in the same order, each with
\* the suffix .instrumented, then the path of the utilities unit; the entries
\* at index i of the two lists name the same unit
FilesListOk ==
    mconf.outputMode = "files" =>
       /\ Len(instrSourceList) = Len(NonUtilityPaths) + 1
       /\ \A i \in 1..Len(NonUtilityPaths) :
             instrSourceList[i] = NonUtilityPaths[i] \o ".instrumented"
       /\ instrSourceList[Len(instrSourceList)] = "__scribble_ReentrancyUtils.sol"
       /\ \A i \in 1..Len(originalSourceList) : \E u \in MetaUnits :
             /\ originalSourceList[i] \in {absolutePath(u), absolutePath(u) \o ".original"}
             /\ instrSourceList[i] = absolutePath(u) \o ".instrumented"

\* C19 as stated: in the returned metadata originalSourceList lists the paths
\* of the non-utility units, each with the suffix .original iff --arm was
\* requested; instrSourceList holds, in files mode, the same paths in the
\* same order each with the suffix .instrumented, followed by the path of
\* the utilities unit without suffix, and in flat and json mode the one
\* output path with the suffix .instrumented, or -- unchanged; in files mode
\* the entries at index i of the two lists name the same unit.
C19_Original ==
    MetaReturned =>
       /\ OriginalListOk
       /\ FilesListOk
       /\ mconf.outputMode # "files" =>
             instrSourceList =
                 <<IF mconf.outputFile = "--" THEN "--"
                   ELSE mconf.outputFile \o ".instrumented">>

\* C19, amended: as stated, except that in flat and json mode the output
\* path is left without suffix when it is -- or when it is the path of the
\* utilities unit, and has the suffix .instrumented otherwise.
C19_SourceLists ==
    MetaReturned =>
       /\ OriginalListOk
       /\ FilesListOk
       /\ mconf.outputMode # "files" =>
             instrSourceList =
                 <<IF mconf.outputFile \in {"--", "__scribble_ReentrancyUtils.sol"}
                   THEN mconf.outputFile
                   ELSE mconf.outputFile \o ".instrumented">>

C19_Witness ==
    /\ MetaReturned
    /\ mconf.outputMode = "files"
    /\ mconf.arm
    /\ Len(originalSourceList) >= 2
    /\ Len(instrSourceList) >= 3

\* flat or json mode with an output file
C19_WitnessFlat ==
    /\ MetaReturned
    /\ mconf.outputMode # "files"
    /\ mconf.outputFile = "out.sol"
    /\ ~mconf.utilsLast
    /\ originalSourceList # << >>

\* the index in the returned originalSourceList of the file of unit u, -1 if
\* the list does not name it
ListIdxOf(u) ==
    IF \E i \in 1..Len(originalSourceList) :
           originalSourceList[i] \in {absolutePath(u), absolutePath(u) \o ".original"}
    THEN Min({i \in 1..Len(originalSourceList) :
                 originalSourceList[i] \in {absolutePath(u), absolutePath(u) \o ".original"}}) - 1
    ELSE 0 - 1

\* pair p maps the walked node of unit u to its span in the file of unit u
WalkPairOf(p, u) ==
    /\ p[1] = ppSrc(newSrcOfNode(u)[1], newSrcOfNode(u)[2], InstrFileOf(u))
    /\ p[2] = ppSrc(srcOfNode(u)[1], srcOfNode(u)[2], ListIdxOf(u))

\* the instrumented side of pair p is the span of a check node of the property of unit u
CheckPairFor(p, u) ==
    \E n \in Range(checkNodes(mconf)) :
        /\ n[1] = u
        /\ n \in mconf.printed
        /\ p[1] = ppSrc(newSrcOfCheck(mconf, n)[1], newSrcOfCheck(mconf, n)[2], InstrFileOf(u))

\* pair p maps a check node of the property of unit u to the annotation in
\* the file of unit u
CheckPairOf(p, u) ==
    /\ CheckPairFor(p, u)
    /\ p[2] = ppSrc(annotationLoc(u)[1], annotationLoc(u)[2], ListIdxOf(u))

\* C30: in the returned metadata the original side of every pair of
\* instrToOriginalMap carries the index at which originalSourceList names the
\* file that contains the span, for the pairs of the walked nodes and for the
\* pairs that map a check node to its annotation.
C30_OriginalIndexInList ==
    MetaReturned =>
        \A j \in 1..Len(src2SrcMap) : \E u \in mconf.units :
            /\ ListIdxOf(u) >= 0
            /\ WalkPairOf(src2SrcMap[j], u) \/ CheckPairOf(src2SrcMap[j], u)

\* the part of C30 that holds: the pairs of the walked nodes carry the index
\* of their file in originalSourceList, and so do the check pairs of a unit
\* whose index in the list is the file index of its documentation node.
C30_WalkPairsInList ==
    MetaReturned =>
        \A j \in 1..Len(src2SrcMap) : \E u \in mconf.units :
            /\ ListIdxOf(u) >= 0
            /\ \/ WalkPairOf(src2SrcMap[j], u)
               \/ /\ CheckPairFor(src2SrcMap[j], u)
                  /\ src2SrcMap[j][2] =
                         ppSrc(annotationLoc(u)[1], annotationLoc(u)[2], rawSrc(u)[3])
                  /\ ListIdxOf(u) = rawSrc(u)[3] => CheckPairOf(src2SrcMap[j], u)

\* the metadata was returned for a list that leaves out the first unit, so
\* that a check pair carries a file index that is not the index in the list
C30_Witness ==
    /\ MetaReturned
    /\ mconf.outputMode = "files"
    /\ \E u \in mconf.units :
          /\ ListIdxOf(u) # rawSrc(u)[3]
          /\ \E j \in 1..Len(src2SrcMap) :
                CheckPairFor(src2SrcMap[j], u) /\ ~CheckPairOf(src2SrcMap[j], u)

(***************************************************************************)
(* PART VI: TypeEnv (spec-lang/tc/typeenv): the user functions.            *)
(***************************************************************************)

EnvContracts == 1..NEnvContracts

FunNames == {"f", "g"}

\* the result of a lookup that finds nothing
NoFunction == [name |-> "", id |-> 0]

NoQuery == [scope |-> 0, name |-> "", res |-> NoFunction]

\* the sequences without repetition over the set S
RECURSIVE Orderings(_)
Orderings(S) ==
    IF S = {} THEN {<< >>}
    ELSE UNION {{<<x>> \o o : o \in Orderings(S \ {x})} : x \in S}

\* the lists vLinearizedBaseContracts can hold for contract c: c itself, then
\* some of the contracts declared before it
Linearizations(c) ==
    UNION {{<<c>> \o o : o \in Orderings(B)} : B \in SUBSET (1..(c - 1))}

\* mutant: the bases are visited from the root down
basesOfReversed(scope) == [i \in 1..Len(tlin[scope]) |-> tlin[scope][Len(tlin[scope]) + 1 - i]]

\* scope.vLinearizedBaseContracts
basesOf(scope) == tlin[scope]

\* the loop of getUserFunction over the rest of the list
RECURSIVE lookupIn(_, _, _)
lookupIn(env, bases, name) ==
    IF bases = << >> THEN NoFunction
    ELSE IF Head(bases) \notin DOMAIN env THEN lookupIn(env, Tail(bases), name)
    ELSE IF name \in DOMAIN env[Head(bases)] THEN env[Head(bases)][name]
    ELSE lookupIn(env, Tail(bases), name)

\* TypeEnv.getUserFunction
getUserFunction(scope, name) == lookupIn(userFunctions, basesOf(scope), name)

\* funM.set(fun.name.name, fun)
mapSet(m, k, v) == [x \in DOMAIN m \cup {k} |-> IF x = k THEN v ELSE m[x]]

EnvInit ==
    /\ tlin \in {l \in [EnvContracts -> UNION {Linearizations(c) : c \in EnvContracts}] :
                    \A c \in EnvContracts : l[c] \in Linearizations(c)}
    /\ userFunctions = << >>
    /\ nDefined = 0
    /\ tquery = NoQuery

EnvIdle ==
    /\ tlin = << >>
    /\ userFunctions = << >>
    /\ nDefined = 0
    /\ tquery = NoQuery

\* TypeEnv.defineUserFunction(scope, fun)
DefineUserFunction ==
    /\ UNCHANGED envOthers
    /\ tlin # << >>
    /\ nDefined < MaxDefined
    /\ \E scope \in EnvContracts, name \in FunNames :
          LET fun == [name |-> name, id |-> nDefined + 1]
              funM == IF scope \in DOMAIN userFunctions THEN userFunctions[scope] ELSE << >>
          IN  userFunctions' = mapSet(userFunctions, scope, mapSet(funM, fun.name, fun))
    /\ nDefined' = nDefined + 1
    /\ tquery' = NoQuery
    /\ UNCHANGED tlin

\* a call of TypeEnv.getUserFunction(scope, name); its result is kept
GetUserFunction ==
    /\ UNCHANGED envOthers
    /\ tlin # << >>
    /\ \E scope \in EnvContracts, name \in FunNames :
          tquery' = [scope |-> scope, name |-> name, res |-> getUserFunction(scope, name)]
    /\ UNCHANGED <<tlin, userFunctions, nDefined>>

EnvNext ==
    \/ DefineUserFunction
    \/ GetUserFunction

\* the positions of the linearized base list of the query's scope whose
\* contract has a user function of the queried name
Having ==
    {i \in 1..Len(tlin[tquery.scope]) :
        /\ tlin[tquery.scope][i] \in DOMAIN userFunctions
        /\ tquery.name \in DOMAIN userFunctions[tlin[tquery.scope][i]]}

\* C20: getUserFunction(scope, name) returns the definition registered under
\* the first contract of scope's linearized base-contract list that has a
\* user function called name, and undefined iff no contract of the list has
\* one.
C20_GetUserFunction ==
    tquery # NoQuery =>
       /\ Having # {} =>
             tquery.res = userFunctions[tlin[tquery.scope][Min(Having)]][tquery.name]
       /\ (tquery.res = NoFunction) <=> (Having = {})

\* a definition in a derived contract shadows the one of its base
C20_Witness ==
    /\ tquery # NoQuery
    /\ Cardinality(Having) >= 2
    /\ 1 \in Having
    /\ tquery.res.id # 0
    /\ \E i \in Having : userFunctions[tlin[tquery.scope][i]][tquery.name] # tquery.res

\* the definition is found in a base, or not at all
C20_WitnessBase ==
    /\ tquery # NoQuery
    /\ Having # {}
    /\ 1 \notin Having

(***************************************************************************)
(* PART VII: the flatten step of flat and json mode: strip the imports and *)
(* the compiler pragmas, insert one compiler pragma, print, join.          *)
(***************************************************************************)

\* sortedUnits: the units are named by their position in the sorted list
FlatUnits == 1..NFlatUnits

\* the children a unit can have when the flatten step starts, by kind;
\* "params" is an empty ParameterList, which the printer gives no span
FlatShapes ==
    {<<"contract">>,
     <<"solidity", "contract", "params">>,
     <<"solidity", "import", "contract">>,
     <<"experimental", "solidity", "import", "contract">>,
     <<"solidity", "experimental", "contract", "contract">>,
     <<"solidity", "solidity", "import", "import">>}

\* the literals of a compiler pragma read from a source file
OldVersion == "^0.6.0"

\* the children of unit u, as nodes, for the shape s
nodesOf(u, s) ==
    [i \in 1..Len(s) |->
        [id |-> <<u, i>>, kind |-> s[i],
         version |-> IF s[i] = "solidity" THEN OldVersion ELSE ""]]

\* factory.makePragmaDirective(["solidity", version])
makePragmaDirective(version) == [id |-> <<0, 0>>, kind |-> "solidity", version |-> version]

\* unit.removeChild(node) for every import directive and every pragma
\* directive whose identifier is "solidity"
stripped(children) ==
    SelectSeq(children, LAMBDA n : n.kind \notin {"import", "solidity"})

\* mutant: the inserted pragma becomes the first child
insertedFirst(children, pragma) == <<pragma>> \o children

\* unit.appendChild(pragma)
appendChild(children, pragma) == Append(children, pragma)

\* the text the printer writes for a node
nodeText(n) ==
    CASE n.kind = "solidity" -> <<"pragma", "solidity", n.version, ";">>
      [] n.kind = "experimental" -> <<"pragma", "experimental", ";">>
      [] n.kind = "import" -> <<"import", ToString(n.id[1]), ToString(n.id[2]), "from", ";">>
      [] n.kind = "contract" -> <<"contract", ToString(n.id[1]), ToString(n.id[2]), "{", "}">>
      [] OTHER -> << >>

\* the order in which the printer writes the children of a unit: the pragma
\* directives, then the import directives, then the definitions; an empty
\* parameter list is not written
writeOrder(children) ==
    SelectSeq(children, LAMBDA n : n.kind \in {"solidity", "experimental"})
        \o SelectSeq(children, LAMBDA n : n.kind = "import")
        \o SelectSeq(children, LAMBDA n : n.kind = "contract")

RECURSIVE printNodes(_, _)
\* the text of the nodes ns, one per line
printNodes(ns, k) ==
    IF k > Len(ns) THEN << >>
    ELSE (IF k > 1 THEN <<NewLine>> ELSE << >>) \o nodeText(ns[k]) \o printNodes(ns, k + 1)

\* print: the text of a unit
printedText(children) == printNodes(writeOrder(children), 1)

\* print: the entries of the source map for the nodes of a unit: node id ->
\* <<offset, length>>
printedSpans(children) ==
    LET ns == writeOrder(children)
    IN  [id \in {ns[k].id : k \in 1..Len(ns)} |->
            LET k == CHOOSE j \in 1..Len(ns) : ns[j].id = id
            IN  <<Len(printNodes(ns, 1)) - Len(printNodes(ns, k)) + (IF k > 1 THEN 1 ELSE 0),
                  Len(nodeText(ns[k]))>>]

\* mutant: the separator is not counted
flatBaseNoSeparator(text) == IF text = << >> THEN 0 ELSE Len(text) - 1

\* flatContents.length at the time the spans of a unit are recorded
flatBase(text) == Len(text)

\* the union of two maps with disjoint keys
mapMerge(a, b) == [x \in DOMAIN a \cup DOMAIN b |-> IF x \in DOMAIN a THEN a[x] ELSE b[x]]

FlatInit ==
    /\ fshape \in [FlatUnits -> FlatShapes]
    /\ fversion \in Versions
    /\ fchildren = [u \in FlatUnits |-> nodesOf(u, fshape[u])]
    /\ flpc = "strip"
    /\ flpos = 0
    /\ newContents = << >>
    /\ localSrcMap = << >>
    /\ flatSrcMap = << >>
    /\ flatText = << >>

FlatIdle ==
    /\ fshape = << >>
    /\ fversion = ""
    /\ fchildren = << >>
    /\ flpc = "idle"
    /\ flpos = 0
    /\ newContents = << >>
    /\ localSrcMap = << >>
    /\ flatSrcMap = << >>
    /\ flatText = << >>

\* 2. strip import and compiler pragma directives: one unit
StripUnit ==
    /\ UNCHANGED flatOthers
    /\ flpc = "strip"
    /\ flpos < NFlatUnits
    /\ fchildren' = [fchildren EXCEPT ![flpos + 1] = stripped(@)]
    /\ flpos' = flpos + 1
    /\ UNCHANGED <<fshape, fversion, flpc, newContents, localSrcMap, flatSrcMap, flatText>>

\* 3. insert a single compiler version directive
InsertPragma ==
    /\ UNCHANGED flatOthers
    /\ flpc = "strip"
    /\ flpos = NFlatUnits
    /\ fchildren' = [fchildren EXCEPT ![1] = appendChild(@, makePragmaDirective(fversion))]
    /\ flpc' = "print"
    /\ flpos' = 0
    /\ UNCHANGED <<fshape, fversion, newContents, localSrcMap, flatSrcMap, flatText>>

\* 5. print the stripped files
PrintUnits ==
    /\ UNCHANGED flatOthers
    /\ flpc = "print"
    /\ newContents' = [u \in FlatUnits |-> printedText(fchildren[u])]
    /\ localSrcMap' = [u \in FlatUnits |-> printedSpans(fchildren[u])]
    /\ flpc' = "join"
    /\ UNCHANGED <<fshape, fversion, fchildren, flpos, flatSrcMap, flatText>>

\* 6. join all the contents in order: one unit
JoinFlatUnit ==
    /\ UNCHANGED flatOthers
    /\ flpc = "join"
    /\ flpos < NFlatUnits
    /\ LET unit == flpos + 1
           sep == IF flatText # << >> THEN flatText \o <<NewLine>> ELSE flatText
           local == localSrcMap[unit]
       IN  /\ flatSrcMap' =
                  mapMerge(flatSrcMap,
                           [id \in DOMAIN local |-> <<flatBase(sep) + local[id][1], local[id][2]>>])
           /\ flatText' = sep \o newContents[unit]
    /\ flpos' = flpos + 1
    /\ UNCHANGED <<fshape, fversion, fchildren, flpc, newContents, localSrcMap>>

\* newSrcMap = flatSrcMap; originalUnits = sortedUnits
FlatDone ==
    /\ UNCHANGED flatOthers
    /\ flpc = "join"
    /\ flpos = NFlatUnits
    /\ flpc' = "done"
    /\ UNCHANGED <<fshape, fversion, fchildren, flpos, newContents, localSrcMap, flatSrcMap,
                   flatText>>

FlatNext ==
    \/ StripUnit
    \/ InsertPragma
    \/ PrintUnits
    \/ JoinFlatUnit
    \/ FlatDone

(***************************************************************************)
(* Properties of PART VII.                                                 *)
(***************************************************************************)
\* the flatten step has stripped the units and inserted the pragma
Flattened == flpc \in {"print", "join", "done"}

\* the nodes of all units, in the order of the units
AllChildren ==
    LET RECURSIVE from(_)
        from(u) == IF u > NFlatUnits THEN << >> ELSE fchildren[u] \o from(u + 1)
    IN  from(1)

\* the kinds of the children of unit u that are pragmas other than solidity
OtherPragmas(children) == SelectSeq(children, LAMBDA n : n.kind = "experimental")

\* after the flatten step no unit has an import directive or a compiler
\* pragma read from its file, and the units hold one compiler pragma, for
\* the picked version
OnePragma ==
    /\ \A u \in FlatUnits : \A i \in 1..Len(fchildren[u]) :
          /\ fchildren[u][i].kind # "import"
          /\ fchildren[u][i].kind = "solidity" => fchildren[u][i].id = <<0, 0>>
    /\ Len(SelectSeq(AllChildren, LAMBDA n : n.kind = "solidity")) = 1
    /\ \A i \in 1..Len(AllChildren) :
          AllChildren[i].kind = "solidity" => AllChildren[i].version = fversion

\* the pragmas other than solidity are left in place
OtherPragmasKept ==
    \A u \in FlatUnits :
       OtherPragmas(fchildren[u]) = OtherPragmas(nodesOf(u, fshape[u]))

RECURSIVE TextBefore(_)
TextBefore(u) ==
    IF u = 1 THEN << >> ELSE TextBefore(u - 1) \o newContents[u - 1] \o <<NewLine>>

\* the units whose spans were recorded
Joined == IF flpc \in {"join", "done"} THEN 1..flpos ELSE {}

\* C22: for every node of every unit that has a local printed span (off, len)
\* the flattened source map records (base + off, len), where base is the
\* length of the texts of the earlier units, each followed by one newline; the
\* recorded span lies within the flattened text and selects the characters
\* that the local span selects in the text of the unit. A node without a
\* local span has no entry.
C22_FlatSpans ==
    /\ \A u \in Joined : \A id \in DOMAIN localSrcMap[u] :
          LET off == localSrcMap[u][id][1]
              len == localSrcMap[u][id][2]
              base == Len(TextBefore(u))
          IN  /\ id \in DOMAIN flatSrcMap
              /\ flatSrcMap[id] = <<base + off, len>>
              /\ base + off + len <= Len(flatText)
              /\ SubSeq(flatText, base + off + 1, base + off + len)
                     = SubSeq(newContents[u], off + 1, off + len)
    /\ DOMAIN flatSrcMap = UNION {DOMAIN localSrcMap[u] : u \in Joined}

C22_Witness ==
    /\ flpc = "done"
    /\ \E id \in DOMAIN flatSrcMap :
          /\ id[1] = NFlatUnits
          /\ flatSrcMap[id][1] > localSrcMap[NFlatUnits][id][1]
    /\ \E u \in FlatUnits : \E i \in 1..Len(fchildren[u]) :
          fchildren[u][i].kind = "params" /\ fchildren[u][i].id \notin DOMAIN flatSrcMap

CheckOutcomes == {"ok", "STypeError", "SemError", "Error"}

\* the classes of AnnotationMetaData
AnnotationClasses == {"PropertyMetaData", "UserFunctionDefinitionMetaData", "Other"}

\* the source file of the annotation: the lengths of its lines, each line
\* ending in a newline that is counted in its length
SourceLines == <<6, 9, 4>>

RECURSIVE lineOf(_, _)
\* the line, counted from 1, that holds file offset off
lineOf(off, line) ==
    IF line >= Len(SourceLines) \/ off < SourceLines[line] THEN line
    ELSE lineOf(off - SourceLines[line], line + 1)

RECURSIVE columnOf(_, _)
\* the column of file offset off in its line
columnOf(off, line) ==
    IF line >= Len(SourceLines) \/ off < SourceLines[line] THEN off
    ELSE columnOf(off - SourceLines[line], line + 1)

\* predOffToFileLoc and bodyOffToFileLoc: the range in the file of a range of
\* the parsed text, which starts at file offset textStart
offToFileLoc(range, textStart) ==
    [start |-> [offset |-> textStart + range[1],
                line |-> lineOf(textStart + range[1], 1),
                column |-> columnOf(textStart + range[1], 1)],
     end |-> [offset |-> textStart + range[2],
              line |-> lineOf(textStart + range[2], 1),
              column |-> columnOf(textStart + range[2], 1)]]

\* mutant: the coordinates of the end of the range
coordsOfEnd(location) ==
    IF "line" \in DOMAIN location
    THEN ToString(location.line) \o ":" \o ToString(location.column)
    ELSE ToString(location.end.line) \o ":" \o ToString(location.end.column)

\* prettyError: coords
coordsOf(location) ==
    IF "line" \in DOMAIN location
    THEN ToString(location.line) \o ":" \o ToString(location.column)
    ELSE ToString(location.start.line) \o ":" \o ToString(location.start.column)

\* prettyError: description
description(type, message, path, location, annotation) ==
    <<path \o ":" \o coordsOf(location) \o " " \o type \o ": " \o message,
      "\n\n", "In:", "\n\n", annotation>>

\* err.message
messageOf(outcome) == "message of " \o outcome

\* the inputs of a call of tcOrDie
TcInputs ==
    [outcome : CheckOutcomes, class : AnnotationClasses, hasFn : BOOLEAN,
     textStart : 0..MaxTextStart, locStart : 0..MaxLoc, locLen : 1..2]

NoTcInput ==
    [outcome |-> "ok", class |-> "Other", hasFn |-> FALSE, textStart |-> 0,
     locStart |-> 0, locLen |-> 1]

TcInit ==
    /\ tcin \in TcInputs
    /\ tcpc = "check"
    /\ tcexit = "none"
    /\ tcerr = << >>

TcIdle ==
    /\ tcin = NoTcInput
    /\ tcpc = "idle"
    /\ tcexit = "none"
    /\ tcerr = << >>

\* the try block: tcAnnotation, then scAnnotation
TcAnnotation ==
    /\ UNCHANGED tcOthers
    /\ tcpc = "check"
    /\ tcpc' = IF tcin.outcome = "ok" THEN "returned" ELSE "caught"
    /\ UNCHANGED <<tcin, tcexit, tcerr>>

\* the catch block
TcCatch ==
    /\ UNCHANGED tcOthers
    /\ tcpc = "caught"
    /\ LET scope == IF tcin.hasFn THEN "C.f" ELSE "C"
           loc == <<tcin.locStart, tcin.locStart + tcin.locLen>>
       IN  IF tcin.outcome \in {"STypeError", "SemError"}
           THEN IF tcin.class = "Other"
                THEN /\ tcexit' = "uncaught"
                     /\ tcerr' = <<"NYI Annotation MD for annotation">>
                ELSE /\ tcexit' = "1"
                     /\ tcerr' = description("TypeError", messageOf(tcin.outcome),
                                             "unit.sol", offToFileLoc(loc, tcin.textStart),
                                             "annotation")
           ELSE /\ tcexit' = "1"
                /\ tcerr' = <<"Internal error in type-checking annotation of " \o scope
                                  \o ": " \o messageOf(tcin.outcome)>>
    /\ tcpc' = "exited"
    /\ UNCHANGED tcin

TcNext ==
    \/ TcAnnotation
    \/ TcCatch

(***************************************************************************)
(* Properties of PART VIII.                                                *)
(***************************************************************************)
\* a type error or a semantic error was found in a property or in a user
\* function, and the run has ended
CheckFailed ==
    /\ tcpc = "exited"
    /\ tcin.outcome \in {"STypeError", "SemError"}
    /\ tcin.class # "Other"

\* the line and the column of the start of the range of the error in the file
StartInFile ==
    CHOOSE lc \in (1..Len(SourceLines)) \X (0..(MaxTextStart + MaxLoc)) :
        LET before == [l \in 1..Len(SourceLines) |->
                          IF l = 1 THEN 0 ELSE SourceLines[1] + (IF l = 3 THEN SourceLines[2] ELSE 0)]
        IN  /\ before[lc[1]] + lc[2] = tcin.textStart + tcin.locStart
            /\ (lc[2] < SourceLines[lc[1]] \/ lc[1] = Len(SourceLines))

\* the kind that names the class of the error
KindOfClass == [STypeError |-> "TypeError", SemError |-> "SemError"]

\* the message of the run for the kind k
MessageWithKind(k) ==
    <<"unit.sol:" \o ToString(StartInFile[1]) \o ":" \o ToString(StartInFile[2]) \o " "
          \o k \o ": " \o messageOf(tcin.outcome),
      "\n\n", "In:", "\n\n", "annotation">>

\* C23: when the type check or the semantic check of an annotation fails the
\* run prints path:line:col kind: message, followed by the original text of
\* the annotation, and exits with code 1; line:col is the start of the range
\* of the error translated to the coordinates of the file, and kind names the
\* class of the error: a semantic error is reported as such.
C23_ErrorReport ==
    CheckFailed =>
       /\ tcexit = "1"
       /\ tcerr = MessageWithKind(KindOfClass[tcin.outcome])

\* what the code keeps of C23: the same report, with the kind TypeError for
\* both classes of error
C23_ReportAsTypeError ==
    CheckFailed =>
       /\ tcexit = "1"
       /\ tcerr = MessageWithKind("TypeError")

C23_Witness ==
    /\ CheckFailed
    /\ tcin.outcome = "SemError"
    /\ StartInFile[1] >= 2

(***************************************************************************)
(* Specifications.                                                         *)
(***************************************************************************)
InstrStart == InstrInit /\ RenameIdle /\ TopoIdle /\ DriverIdle /\ MetaIdle /\ EnvIdle /\ FlatIdle /\ TcIdle

RenameStart == RenameInit /\ InstrIdle /\ TopoIdle /\ DriverIdle /\ MetaIdle /\ EnvIdle /\ FlatIdle /\ TcIdle

TopoStart == TopoInit /\ InstrIdle /\ RenameIdle /\ DriverIdle /\ MetaIdle /\ EnvIdle /\ FlatIdle /\ TcIdle

DriverStart == DriverInit /\ InstrIdle /\ RenameIdle /\ TopoIdle /\ MetaIdle /\ EnvIdle /\ FlatIdle /\ TcIdle

MetaStart == MetaInit /\ InstrIdle /\ RenameIdle /\ TopoIdle /\ DriverIdle /\ EnvIdle /\ FlatIdle /\ TcIdle

EnvStart == EnvInit /\ InstrIdle /\ RenameIdle /\ TopoIdle /\ DriverIdle /\ MetaIdle /\ FlatIdle /\ TcIdle

FlatStart == FlatInit /\ InstrIdle /\ RenameIdle /\ TopoIdle /\ DriverIdle /\ MetaIdle /\ EnvIdle /\ TcIdle

TcStart == TcInit /\ InstrIdle /\ RenameIdle /\ TopoIdle /\ DriverIdle /\ MetaIdle /\ EnvIdle /\ FlatIdle

SpecInstr == InstrStart /\ [][InstrNext]_vars

SpecRename == RenameStart /\ [][RenameNext]_vars

SpecTopo == TopoStart /\ [][TopoNext]_vars

SpecDriver == DriverStart /\ [][DriverNext]_vars

SpecMeta == MetaStart /\ [][MetaNext]_vars

SpecEnv == EnvStart /\ [][EnvNext]_vars

SpecFlat == FlatStart /\ [][FlatNext]_vars

SpecTc == TcStart /\ [][TcNext]_vars

====
